---- MODULE Spec2Model ----
(***************************************************************************)
(* Model of the trend-data pipeline of the Diet Coke timeline page:        *)
(* period-label parsing, the weekly-to-daily synthesizer with its seeded   *)
(* generator, and the monthly / weekly aggregators of page.tsx and of the  *)
(* overlay component (src/unnamed/part_002).                               *)
(*                                                                         *)
(* JavaScript strings are modelled as sequences of one-character strings,  *)
(* so that split, parseInt, toString and slice are computed and not        *)
(* assumed.  JavaScript numbers that reach the date code are integers or   *)
(* NaN: [nan |-> BOOLEAN, v |-> Int].  A Date is its time value counted in *)
(* local calendar days since 1 Jan 1970, or invalid.                       *)
(***************************************************************************)
EXTENDS Integers, Sequences, FiniteSets, TLC

VARIABLES
    label,        \* the period label handed to parsePeriodToDate
    date,         \* parsePeriodToDate(label)
    weekStart,    \* getWeekStart(date)
    relabel,      \* the label the code's formatter gives for date
    trendline,    \* the input samples {period, conversations, reach?}
    called,       \* the functions applied so far, in order
    dailyData,    \* page.tsx weeklyToDaily(trendline)
    pageMonthly,  \* page.tsx aggregateToMonthly(trendline)
    ovWeekly,     \* overlay aggregateToWeekly(trendline)
    ovMonthly,    \* overlay aggregateToMonthly(trendline)
    again,        \* the aggregator named last in called, applied to its own output
    baseSeed,     \* the seed of the first of a sample's 7 weights
    random,       \* seededRandom(baseSeed) * 2^32, once computed
    weights7,     \* the 7 raw weights of the sample, once computed
    overallTrendline,            \* overlay prop: points {date, conversations}
    eventTrendlines,             \* overlay prop: events {id, trendline}
    granularity,                 \* overlay state: "daily", "weekly" or "monthly"
    aggregatedOverallTrendline,  \* overlay memo
    aggregatedEventTrendlines,   \* overlay memo
    combinedData,                \* overlay memo: the entries of the shared axis
    chartData,           \* Timeline prop: the conversations of the points
    salesData,           \* Timeline prop: absent, or the values of each geography
    isReachView,         \* Timeline prop
    showSalesData,       \* Timeline state
    maxConversations,    \* Timeline memo
    salesDomain,         \* Timeline memo: {min, max} of the right axis
    conversationDomain,  \* Timeline memo: {min, max} of the left axis
    rawItem,         \* a record of rawData, its trendline being trendline
    itemIndex,       \* its index in rawData.slice(1)
    runtime,         \* the default locale, and whether local time is behind UTC
    timelineEvent,   \* <<the entry of events for rawItem>>, once computed
    reachEvent,      \* <<the entry of reachEventTrendlines for rawItem>>, once computed
    dcSalesRaw,          \* dc-sales.json as the entries [name, months] of its geographies
    pageEvents,          \* page.tsx: events
    monthlyTrendline,    \* page.tsx: aggregateToMonthly(overallTrend.trendline)
    indiaMonthly,        \* page.tsx: <<aggregateToMonthly(indiaRawTrendline)>>, <<>> when no record has the name
    combinedChartData,   \* Timeline memo
    eventMarkers,        \* Timeline memo
    viewMode,            \* Home state
    highlightedEvent,    \* Home state
    highlightTimers,     \* the event ids of the pending 2000 ms timeouts, oldest first
    onEventClickCalls,   \* the ids onEventClick was called with, in order
    hoveredEvent,        \* Timeline state
    tooltipPosition,     \* Timeline state
    hideTimeoutRef,      \* Timeline ref: null or an id setTimeout returned
    hideTimers,          \* the ids of the pending 150 ms timeouts
    lastTimeoutId,       \* the id setTimeout returned last to handleMouseLeave
    mouseEvents,         \* history: the last marker event, whether enters and leaves alternated, whether the last enter cleared a pending timeout
    isTouch,             \* useIsTouchDevice()
    isMobile,            \* useIsMobile()
    selectedEvents,      \* TrendlineOverlay state
    showOverall,         \* TrendlineOverlay state
    selectedGeographies  \* Timeline state

\* The variables of the generator.
seedVars == <<baseSeed, random, weights7>>

\* The variables of the overlay component.
overlayVars == <<overallTrendline, eventTrendlines, granularity,
                 aggregatedOverallTrendline, aggregatedEventTrendlines, combinedData>>

\* The variables of the Timeline component.
timelineVars == <<chartData, salesData, isReachView, showSalesData,
                  maxConversations, salesDomain, conversationDomain>>

\* The variables of the fixture transform.
fixtureVars == <<rawItem, itemIndex, runtime, timelineEvent, reachEvent>>

\* The variables of the page: the sales fixture, the events, the India
\* record, the Timeline's chart memos, and the state of Home, of the
\* Timeline and of the overlay that user actions change.
pageVars == <<dcSalesRaw, pageEvents, monthlyTrendline, indiaMonthly, combinedChartData,
              eventMarkers,
              viewMode, highlightedEvent, highlightTimers, onEventClickCalls,
              hoveredEvent, tooltipPosition, hideTimeoutRef, hideTimers, lastTimeoutId,
              mouseEvents, isTouch, isMobile, selectedEvents, showOverall,
              selectedGeographies>>

\* The variables the pipeline functions leave alone.
restVars == <<seedVars, overlayVars, timelineVars, fixtureVars, pageVars>>

vars == <<label, date, weekStart, relabel, trendline, called,
          dailyData, pageMonthly, ovWeekly, ovMonthly, again, restVars>>

-----------------------------------------------------------------------------
(* Strings *)

monthNames ==
    <<<<"J", "a", "n">>, <<"F", "e", "b">>, <<"M", "a", "r">>, <<"A", "p", "r">>,
      <<"M", "a", "y">>, <<"J", "u", "n">>, <<"J", "u", "l">>, <<"A", "u", "g">>,
      <<"S", "e", "p">>, <<"O", "c", "t">>, <<"N", "o", "v">>, <<"D", "e", "c">>>>

\* What template-literal interpolation gives for undefined.
UndefinedStr == <<"u", "n", "d", "e", "f", "i", "n", "e", "d">>

Digits == <<"0", "1", "2", "3", "4", "5", "6", "7", "8", "9">>

IsDigit(c) == \E i \in 1..10 : Digits[i] = c

DigitVal(c) == (CHOOSE i \in 1..10 : Digits[i] = c) - 1

NaN == [nan |-> TRUE, v |-> 0]

Num(n) == [nan |-> FALSE, v |-> n]

\* String.prototype.split(" "): the pieces between single spaces, empty
\* pieces included.
Split(s) ==
    LET RECURSIVE From(_, _)
        From(i, cur) ==
            IF i > Len(s) THEN <<cur>>
            ELSE IF s[i] = " " THEN <<cur>> \o From(i + 1, <<>>)
            ELSE From(i + 1, Append(cur, s[i]))
    IN  From(1, <<>>)

\* String.prototype.replace(",", ""): the first comma removed.
RECURSIVE RemoveFirstComma(_)
RemoveFirstComma(s) ==
    IF s = <<>> THEN <<>>
    ELSE IF Head(s) = "," THEN Tail(s)
    ELSE <<Head(s)>> \o RemoveFirstComma(Tail(s))

\* parseInt(s): an optional sign, then the longest prefix of decimal
\* digits (DigitPrefix: its value from position i on, acc being the value
\* read so far); NaN when there is no digit.
parseInt(s) ==
    LET RECURSIVE DigitPrefix(_, _)
        DigitPrefix(i, acc) ==
            IF i > Len(s) \/ ~IsDigit(s[i]) THEN acc
            ELSE DigitPrefix(i + 1, acc * 10 + DigitVal(s[i]))
        signed == s # <<>> /\ s[1] \in {"-", "+"}
        from == IF signed THEN 2 ELSE 1
    IN  IF from > Len(s) \/ ~IsDigit(s[from]) THEN NaN
        ELSE IF signed /\ s[1] = "-" THEN Num(-DigitPrefix(from, 0))
        ELSE Num(DigitPrefix(from, 0))

\* parseInt(parts[k]) for a 0-based index k: parts[k] is undefined past the
\* end of the array and parseInt(undefined) is NaN.
ParseIntAt(parts, k) ==
    IF k + 1 <= Len(parts) THEN parseInt(parts[k + 1]) ELSE NaN

\* Array.prototype.indexOf on monthNames: the 0-based index, or -1.
MonthIndexOf(m) ==
    IF \E i \in 1..12 : monthNames[i] = m
    THEN (CHOOSE i \in 1..12 : monthNames[i] = m) - 1
    ELSE -1

\* Number.prototype.toString()
NumToString(x) ==
    LET RECURSIVE NatToString(_)
        NatToString(n) ==
            IF n < 10 THEN <<Digits[n + 1]>>
            ELSE NatToString(n \div 10) \o <<Digits[(n % 10) + 1]>>
    IN  IF x.nan THEN <<"N", "a", "N">>
        ELSE IF x.v < 0 THEN <<"-">> \o NatToString(-x.v)
        ELSE NatToString(x.v)

\* The year printed whole, without the slice.
SliceNothing(s) == s

\* String.prototype.slice(-2): the last two characters.
SliceLast2(s) == IF Len(s) <= 2 THEN s ELSE SubSeq(s, Len(s) - 1, Len(s))

-----------------------------------------------------------------------------
(* Dates: the local-time Date constructor, getters and setDate *)

InvalidDate == [valid |-> FALSE, t |-> 0]

\* Days from 1 Jan 1970 to day d of month m (1..12) of year y, in the
\* proleptic Gregorian calendar.
DaysFromCivil(y, m, d) ==
    LET yy  == IF m <= 2 THEN y - 1 ELSE y
        era == yy \div 400
        yoe == yy - era * 400
        mp  == IF m > 2 THEN m - 3 ELSE m + 9
        doy == (153 * mp + 2) \div 5 + d - 1
        doe == yoe * 365 + yoe \div 4 - yoe \div 100 + doy
    IN  era * 146097 + doe - 719468

\* The calendar fields [y, m (1..12), d] of a day number.
CivilFromDays(z0) ==
    LET z   == z0 + 719468
        era == z \div 146097
        doe == z - era * 146097
        yoe == (doe - doe \div 1460 + doe \div 36524 - doe \div 146096) \div 365
        doy == doe - (365 * yoe + yoe \div 4 - yoe \div 100)
        mp  == (5 * doy + 2) \div 153
        d   == doy - (153 * mp + 2) \div 5 + 1
        m   == IF mp < 10 THEN mp + 3 ELSE mp - 9
    IN  [y |-> IF m <= 2 THEN yoe + era * 400 + 1 ELSE yoe + era * 400,
         m |-> m, d |-> d]

\* MakeDay: month index mi (0-based) and day dt may lie outside their
\* ranges and carry into the year and the month.
MakeDay(y, mi, dt) == DaysFromCivil(y + mi \div 12, (mi % 12) + 1, 1) + dt - 1

\* new Date(year, monthIndex, day) on numbers: invalid when an argument is
\* NaN; a year 0..99 denotes 1900 + year.
NewDate(year, mi, day) ==
    IF year.nan \/ mi.nan \/ day.nan THEN InvalidDate
    ELSE LET y == IF 0 <= year.v /\ year.v <= 99 THEN 1900 + year.v ELSE year.v
         IN  [valid |-> TRUE, t |-> MakeDay(y, mi.v, day.v)]

getFullYear(dt) == IF dt.valid THEN Num(CivilFromDays(dt.t).y) ELSE NaN

getMonth(dt) == IF dt.valid THEN Num(CivilFromDays(dt.t).m - 1) ELSE NaN

getDate(dt) == IF dt.valid THEN Num(CivilFromDays(dt.t).d) ELSE NaN

\* 0 = Sunday .. 6 = Saturday; 1 Jan 1970 was a Thursday.
getDay(dt) == IF dt.valid THEN Num((dt.t + 4) % 7) ELSE NaN

\* Date.prototype.setDate(n): day n of the date's own month.
setDate(dt, n) ==
    IF ~dt.valid \/ n.nan THEN InvalidDate
    ELSE LET c == CivilFromDays(dt.t)
         IN  [valid |-> TRUE, t |-> MakeDay(c.y, c.m - 1, n.v)]

\* monthNames[i] for a number i: undefined when i is no index of the array.
MonthNameAt(i) ==
    IF ~i.nan /\ 0 <= i.v /\ i.v <= 11 THEN monthNames[i.v + 1] ELSE UndefinedStr

\* `${m} ${dd}, ${yy}` with m = monthNames[d.getMonth()], dd = d.getDate()
\* and yy = d.getFullYear().toString().slice(-2).
FormatDayLabel(dt) ==
    MonthNameAt(getMonth(dt)) \o <<" ">> \o NumToString(getDate(dt))
        \o <<",", " ">> \o SliceLast2(NumToString(getFullYear(dt)))

-----------------------------------------------------------------------------
(* Array.prototype.sort and Map *)

\* The sign a comparator result has for the sort: NaN counts as +0.
SortSign(x) == IF x.nan \/ x.v = 0 THEN 0 ELSE IF x.v < 0 THEN -1 ELSE 1

\* The elements of a sequence.
Elements(s) == {s[i] : i \in 1..Len(s)}

\* The results sort(comparefn) may give, c[a, b] being the sign of
\* comparefn(a, b): the stable order under a consistent comparator, and an
\* implementation-defined order of the same (distinct) elements otherwise.
sort(s, c) ==
    \* A stable sort, c[a, b] being the comparator's sign: each element
    \* inserted into the sorted sequence of those before it, after every
    \* element it does not precede.
    LET RECURSIVE StableSort(_, _)
        StableSort(s0, c0) ==
            LET RECURSIVE InsertSorted(_, _)
                InsertSorted(r, x) ==
                    IF r = <<>> THEN <<x>>
                    ELSE IF c0[x, Head(r)] < 0 THEN <<x>> \o r
                    ELSE <<Head(r)>> \o InsertSorted(Tail(r), x)
            IN  IF s0 = <<>> THEN <<>>
                ELSE InsertSorted(StableSort(SubSeq(s0, 1, Len(s0) - 1), c0), s0[Len(s0)])
    IN
    \* A consistent comparator, given by its signs c[a, b], orders the
    \* elements of s as a strict weak ordering.
    LET Consistent(s0, c0) ==
            LET S == Elements(s0)
            IN  /\ \A a \in S : c0[a, a] = 0
                /\ \A a, b \in S : c0[a, b] = -c0[b, a]
                /\ \A a, b, d \in S :
                      /\ (c0[a, b] = 0 /\ c0[b, d] = 0) => c0[a, d] = 0
                      /\ (c0[a, b] < 0 /\ c0[b, d] < 0) => c0[a, d] < 0
    IN
    IF Consistent(s, c) THEN {StableSort(s, c)}
    ELSE {p \in [1..Len(s) -> Elements(s)] :
             \A x \in Elements(s) : \E i \in 1..Len(s) : p[i] = x}

\* A Map as the sequence of its entries [key, value] in insertion order.
MapHas(m, k) == \E i \in 1..Len(m) : m[i].key = k

MapGet(m, k) == m[CHOOSE i \in 1..Len(m) : m[i].key = k].value

\* Map.prototype.set: a present key keeps its place and gets the value.
MapSet(m, k, v) ==
    IF MapHas(m, k)
    THEN [i \in 1..Len(m) |-> IF m[i].key = k THEN [key |-> k, value |-> v] ELSE m[i]]
    ELSE Append(m, [key |-> k, value |-> v])

-----------------------------------------------------------------------------
(* Overlay component: parsePeriodToDate, getWeekStart, the aggregators *)

\* The year rule with the pivot one year off.
FullYearPivotOff(year) ==
    IF year.nan THEN NaN
    ELSE IF year.v <= 50 THEN Num(2000 + year.v) ELSE Num(1900 + year.v)

\* year < 50 ? 2000 + year : 1900 + year, with NaN < 50 false and
\* 1900 + NaN = NaN.
FullYear(year) ==
    IF year.nan THEN NaN
    ELSE IF year.v < 50 THEN Num(2000 + year.v) ELSE Num(1900 + year.v)

parsePeriodToDate(period) ==
    LET parts == Split(period)
        monthIndex == MonthIndexOf(parts[1])
        day == IF Len(parts) = 3 THEN parseInt(RemoveFirstComma(parts[2])) ELSE Num(1)
        year == IF Len(parts) = 3 THEN parseInt(parts[3]) ELSE ParseIntAt(parts, 1)
    IN  NewDate(FullYear(year), Num(monthIndex), day)

\* The week start without the case of a Sunday.
getWeekStartNoSundayCase(dt) ==
    LET day == getDay(dt)
        diff == IF day.nan THEN NaN ELSE Num(getDate(dt).v - day.v + 1)
    IN  setDate(dt, diff)

getWeekStart(dt) ==
    LET day == getDay(dt)
        diff == IF day.nan THEN NaN
                ELSE Num(getDate(dt).v - day.v + (IF day.v = 0 THEN -6 ELSE 1))
    IN  setDate(dt, diff)

\* a.getTime() - b.getTime() of the parsed labels; the order of two local
\* midnights is the order of their days.
ByParsedDate(a, b) ==
    LET x == parsePeriodToDate(a.period)
        y == parsePeriodToDate(b.period)
    IN  IF x.valid /\ y.valid THEN Num(x.t - y.t) ELSE NaN

\* The bucket overwritten instead of added to.
MapAddOverwrite(m, k, n) == MapSet(m, k, n)

\* map.set(key, (map.get(key) || 0) + n)
MapAdd(m, k, n) == MapSet(m, k, (IF MapHas(m, k) THEN MapGet(m, k) ELSE 0) + n)

\* Array.from(map.entries()).map(([period, conversations]) => ...)
OverlayEntries(m) ==
    [i \in 1..Len(m) |-> [period |-> m[i].key, conversations |-> m[i].value]]

WeekKey(period) == FormatDayLabel(getWeekStart(parsePeriodToDate(period)))

\* The results aggregateToWeekly(data) may return.
aggregateToWeekly(data) ==
    LET RECURSIVE WeeklyMap(_)
        WeeklyMap(data0) ==
            IF data0 = <<>> THEN <<>>
            ELSE LET item == data0[Len(data0)]
                 IN  MapAdd(WeeklyMap(SubSeq(data0, 1, Len(data0) - 1)),
                            WeekKey(item.period), item.conversations)
    IN
    LET entries == OverlayEntries(WeeklyMap(data))
    IN  sort(entries, [a \in Elements(entries), b \in Elements(entries)
                          |-> SortSign(ByParsedDate(a, b))])

\* `${m} 1, ${yy}` with m = monthNames[date.getMonth()] and yy =
\* date.getFullYear().toString().slice(-2).
MonthLabel(dt) ==
    MonthNameAt(getMonth(dt)) \o <<" ", "1", ",", " ">>
        \o SliceLast2(NumToString(getFullYear(dt)))

MonthKey(period) == MonthLabel(parsePeriodToDate(period))

\* The results the overlay's aggregateToMonthly(data) may return.
overlayAggregateToMonthly(data) ==
    LET RECURSIVE OverlayMonthlyMap(_)
        OverlayMonthlyMap(data0) ==
            IF data0 = <<>> THEN <<>>
            ELSE LET item == data0[Len(data0)]
                 IN  MapAdd(OverlayMonthlyMap(SubSeq(data0, 1, Len(data0) - 1)),
                            MonthKey(item.period), item.conversations)
    IN
    LET entries == OverlayEntries(OverlayMonthlyMap(data))
    IN  sort(entries, [a \in Elements(entries), b \in Elements(entries)
                          |-> SortSign(ByParsedDate(a, b))])

-----------------------------------------------------------------------------
(* page.tsx: aggregateToMonthly *)

\* item.reach || 0: a missing reach counts as 0.
ReachOrZero(item) == IF "reach" \in DOMAIN item THEN item.reach ELSE 0

PageMonthKey(parts) == parts[1] \o <<" ", "1", ",", " ">> \o parts[3]

\* The fold step with the bucket overwritten instead of added to.
PageMonthlyStepOverwrite(m, item) ==
    LET parts == Split(item.period)
    IN  IF Len(parts) = 3
        THEN MapSet(m, PageMonthKey(parts),
                    [conversations |-> item.conversations, reach |-> ReachOrZero(item)])
        ELSE m

\* The body of trendline.forEach: a 3-token label adds the item to the
\* bucket of its month and year tokens, any other label is passed over.
PageMonthlyStep(m, item) ==
    LET parts == Split(item.period)
    IN  IF Len(parts) = 3
        THEN LET k == PageMonthKey(parts)
                 existing == IF MapHas(m, k) THEN MapGet(m, k)
                             ELSE [conversations |-> 0, reach |-> 0]
             IN  MapSet(m, k,
                        [conversations |-> existing.conversations + item.conversations,
                         reach |-> existing.reach + ReachOrZero(item)])
        ELSE m

\* The results page.tsx's aggregateToMonthly(trendline) may return.
aggregateToMonthly(tl) ==
    \* The comparator of the final sort: by parseInt of the year token, then by
    \* monthOrder.indexOf of the month token.
    LET ByYearThenMonth(a, b) ==
            LET pa == Split(a.period)
                pb == Split(b.period)
                aYearNum == ParseIntAt(pa, 2)
                bYearNum == ParseIntAt(pb, 2)
            IN  IF aYearNum.nan \/ bYearNum.nan THEN NaN
                ELSE IF aYearNum.v # bYearNum.v THEN Num(aYearNum.v - bYearNum.v)
                ELSE Num(MonthIndexOf(pa[1]) - MonthIndexOf(pb[1]))
    IN
    \* .map(([period, data]) => ({ period, ...data }))
    LET PageEntries(m) ==
            [i \in 1..Len(m) |-> [period |-> m[i].key,
                                  conversations |-> m[i].value.conversations,
                                  reach |-> m[i].value.reach]]
    IN
    LET RECURSIVE PageMonthlyMap(_)
        PageMonthlyMap(tl0) ==
            IF tl0 = <<>> THEN <<>>
            ELSE PageMonthlyStep(PageMonthlyMap(SubSeq(tl0, 1, Len(tl0) - 1)), tl0[Len(tl0)])
    IN
    LET entries == PageEntries(PageMonthlyMap(tl))
    IN  sort(entries, [a \in Elements(entries), b \in Elements(entries)
                          |-> SortSign(ByYearThenMonth(a, b))])

-----------------------------------------------------------------------------
(* page.tsx: seededRandom, in 32-bit words [hi, lo] of two 16-bit halves *)

Half == 2 ^ 16

Word(hi, lo) == [hi |-> hi % Half, lo |-> lo % Half]

\* ToInt32 / ToUint32 of an integer: its residue modulo 2^32 (\div floors,
\* so a negative integer gets its two's complement).
ToWord(n) == Word(n \div Half, n)

XorW(a, b) ==
    LET RECURSIVE Xor16(_, _)
        Xor16(x, y) ==
            IF x = 0 THEN y
            ELSE IF y = 0 THEN x
            ELSE ((x + y) % 2) + 2 * Xor16(x \div 2, y \div 2)
    IN  Word(Xor16(a.hi, b.hi), Xor16(a.lo, b.lo))

\* w | k for a constant k < 2^16
OrSmall(w, k) ==
    LET RECURSIVE Or16(_, _)
        Or16(x, y) ==
            IF x = 0 THEN y
            ELSE IF y = 0 THEN x
            ELSE (IF x % 2 = 1 \/ y % 2 = 1 THEN 1 ELSE 0) + 2 * Or16(x \div 2, y \div 2)
    IN  Word(w.hi, Or16(w.lo, k))

\* w >>> n for 0 < n < 16
ShrW(w, n) == Word(w.hi \div (2 ^ n), (w.hi % (2 ^ n)) * (2 ^ (16 - n)) + w.lo \div (2 ^ n))

\* a + b modulo 2^32
AddW(a, b) == Word(a.hi + b.hi + (a.lo + b.lo) \div Half, a.lo + b.lo)

\* Math.imul: the low 32 bits of the product, from the 32-bit products of
\* the 16-bit halves, each from its bytes.
imul(a, b) ==
    LET Mul16(x, y) ==
            LET x1 == x \div 256
                x0 == x % 256
                y1 == y \div 256
                y0 == y % 256
                p1 == x1 * y0 + x0 * y1
                low == x0 * y0 + (p1 % 256) * 256
            IN  Word(x1 * y1 + p1 \div 256 + low \div Half, low)
        ll == Mul16(a.lo, b.lo)
    IN  Word(ll.hi + Mul16(a.hi, b.lo).lo + Mul16(a.lo, b.hi).lo, ll.lo)

\* 0x6D2B79F5
SeedOffset == Word(27947, 31221)

\* seededRandom without the final >>> 0: the signed 32-bit value.
seededRandomSigned(seed) ==
    LET t0 == IF seed.nan THEN Word(0, 0) ELSE AddW(ToWord(seed.v), SeedOffset)
        t1 == imul(XorW(t0, ShrW(t0, 15)), OrSmall(t0, 1))
        t2 == XorW(t1, AddW(t1, imul(XorW(t1, ShrW(t1, 7)), OrSmall(t1, 61))))
        w == XorW(t2, ShrW(t2, 14))
    IN  IF w.hi >= Half \div 2 THEN [hi |-> w.hi - Half, lo |-> w.lo] ELSE w

\* seededRandom(seed) * 2^32: the unsigned word the division by 4294967296
\* turns into a value of [0, 1).  The bit operators read a NaN seed as 0.
seededRandom(seed) ==
    LET t0 == IF seed.nan THEN Word(0, 0) ELSE AddW(ToWord(seed.v), SeedOffset)
        t1 == imul(XorW(t0, ShrW(t0, 15)), OrSmall(t0, 1))
        t2 == XorW(t1, AddW(t1, imul(XorW(t1, ShrW(t1, 7)), OrSmall(t1, 61))))
    IN  XorW(t2, ShrW(t2, 14))

-----------------------------------------------------------------------------
(* Exact arithmetic on the weights.  A raw weight 0.5 + u / 2^32 * 1.5 is  *)
(* the double (2^32 + 3u) / 2^33 exactly, and so are the sum of seven of   *)
(* them and the product with a weekly total below 2^14; the one rounded    *)
(* operation, the division, is off by less than 2^-39, too little to move  *)
(* a quotient across a half-integer, which it misses by 2^-38 or more.     *)
(* Numbers are little-endian sequences of four 16-bit limbs, the unit      *)
(* being 2^-33.                                                            *)

BigZero == <<0, 0, 0, 0>>

BigAdd(a, b) ==
    LET RECURSIVE From(_, _)
        From(i, carry) ==
            IF i > 4 THEN <<>>
            ELSE LET s == a[i] + b[i] + carry
                 IN  <<s % Half>> \o From(i + 1, s \div Half)
    IN  From(1, 0)

\* a * k for 0 <= k < 2^14
BigMulSmall(a, k) ==
    LET RECURSIVE From(_, _)
        From(i, carry) ==
            IF i > 4 THEN <<>>
            ELSE LET s == a[i] * k + carry
                 IN  <<s % Half>> \o From(i + 1, s \div Half)
    IN  From(1, 0)

BigLeq(a, b) ==
    LET RECURSIVE From(_)
        From(i) == IF i = 0 THEN TRUE
                   ELSE IF a[i] # b[i] THEN a[i] < b[i]
                   ELSE From(i - 1)
    IN  From(4)

\* 0.5 + seededRandom(seed) * 1.5, in units of 2^-33: 2^32 + 3u.
RawWeight(seed) ==
    LET u == seededRandom(seed)
    IN  BigAdd(<<0, 0, 1, 0>>, BigMulSmall(<<u.lo, u.hi, 0, 0>>, 3))

\* Math.round((total * weight) / weightSum): the quotient rounded to the
\* nearest integer, a half rounded up.  The weight is less than the sum, so
\* the result is at most total.
RoundShare(total, weight, weightSum) ==
    \* The largest k in lo..hi with 2 * den * k <= 2 * num + den, given that lo
    \* is such a k.
    LET RECURSIVE RoundSearch(_, _, _, _)
        RoundSearch(num2den, den2, lo, hi) ==
            IF lo >= hi THEN lo
            ELSE LET mid == (lo + hi + 1) \div 2
                 IN  IF BigLeq(BigMulSmall(den2, mid), num2den)
                     THEN RoundSearch(num2den, den2, mid, hi)
                     ELSE RoundSearch(num2den, den2, lo, mid - 1)
    IN
    LET num == BigMulSmall(weight, total)
    IN  RoundSearch(BigAdd(BigAdd(num, num), weightSum),
                    BigAdd(weightSum, weightSum), 0, total)

-----------------------------------------------------------------------------
(* page.tsx: weeklyToDaily *)

\* The fields weeklyToDaily reads from a 3-token label.
StartFields(parts) ==
    LET day == parseInt(RemoveFirstComma(parts[2]))
        fullYear == FullYear(parseInt(parts[3]))
        monthIdx == MonthIndexOf(parts[1])
    IN  [day |-> day, fullYear |-> fullYear, monthIdx |-> monthIdx,
         startDate |-> NewDate(fullYear, Num(monthIdx), day)]

\* A sum that leaves out the last weight.
RECURSIVE BigSumButLast(_, _)
BigSumButLast(w, d) ==
    IF d < 1 THEN BigZero ELSE BigAdd(BigSumButLast(w, d - 1), w[d - 1])

RECURSIVE BigSum(_, _)
BigSum(w, d) == IF d < 0 THEN BigZero ELSE BigAdd(BigSum(w, d - 1), w[d])

\* A currentDate that starts one day late.
CurrentDateOneLate(startDate, d) ==
    setDate(startDate, IF startDate.valid THEN Num(getDate(startDate).v + d + 1) ELSE NaN)

\* currentDate for day offset d: a copy of startDate, setDate(getDate() + d).
CurrentDate(startDate, d) ==
    setDate(startDate, IF startDate.valid THEN Num(getDate(startDate).v + d) ELSE NaN)

\* The entries pushed for sample i from day offset d on.
RECURSIVE DaysFrom(_, _, _, _, _, _)
DaysFrom(tl, i, f, w, weightSum, d) ==
    \* The break of the inner loop: sample i (0-based) has a next sample with a
    \* 3-token label and currentDate >= nextStart (false when either is invalid).
    LET Overlaps(tl0, i0, currentDate) ==
            /\ i0 < Len(tl0) - 1
            /\ LET nextParts == Split(tl0[i0 + 2].period)
               IN  /\ Len(nextParts) = 3
                   /\ LET nextStart == StartFields(nextParts).startDate
                      IN  currentDate.valid /\ nextStart.valid /\ currentDate.t >= nextStart.t
    IN
    LET currentDate == CurrentDate(f.startDate, d)
        item == tl[i + 1]
    IN  IF d >= 7 \/ Overlaps(tl, i, currentDate) THEN <<>>
        ELSE <<[period |-> FormatDayLabel(currentDate),
                conversations |-> RoundShare(item.conversations, w[d], weightSum),
                reach |-> RoundShare(ReachOrZero(item), w[d], weightSum)]>>
             \o DaysFrom(tl, i, f, w, weightSum, d + 1)

\* The entries pushed by the outer loop's pass for sample i (0-based).
SampleDays(tl, i) ==
    \* fullYear * 10000 + (monthIdx + 1) * 100 + day + d * 7 + i * 31
    LET Seed(f, d, i0) ==
            IF f.fullYear.nan \/ f.day.nan THEN NaN
            ELSE Num(f.fullYear.v * 10000 + (f.monthIdx + 1) * 100 + f.day.v + d * 7 + i0 * 31)
    IN
    LET parts == Split(tl[i + 1].period)
    IN  IF Len(parts) # 3 THEN <<>>
        ELSE LET f == StartFields(parts)
                 rawWeights == [d \in 0..6 |-> RawWeight(Seed(f, d, i))]
             IN  DaysFrom(tl, i, f, rawWeights, BigSum(rawWeights, 6), 0)

RECURSIVE DailyUpTo(_, _)
DailyUpTo(tl, n) ==
    IF n = 0 THEN <<>> ELSE DailyUpTo(tl, n - 1) \o SampleDays(tl, n - 1)

weeklyToDaily(tl) == DailyUpTo(tl, Len(tl))

-----------------------------------------------------------------------------
(* Overlay component: the memos aggregatedOverallTrendline,                *)
(* aggregatedEventTrendlines and combinedData.  An object with computed    *)
(* keys is a function from its keys.                                       *)

\* obj[key] = value
SetKey(obj, key, value) ==
    [k \in (DOMAIN obj) \cup {key} |-> IF k = key THEN value ELSE obj[k]]

\* overallTrendline.map((p) => ({ period: p.date, conversations: p.conversations }))
RawData(points) ==
    [i \in 1..Len(points) |->
        [period |-> points[i].date, conversations |-> points[i].conversations]]

\* The series a trendline may become at a granularity.
AggregateAt(g, data) ==
    CASE g = "weekly" -> aggregateToWeekly(data)
      [] g = "monthly" -> overlayAggregateToMonthly(data)
      [] OTHER -> {data}

\* eventTrendlines.map((event) => ({ ...event, trendline: ... })), the
\* first n events.
RECURSIVE AggregateEvents(_, _, _)
AggregateEvents(g, events, n) ==
    IF n = 0 THEN {<<>>}
    ELSE {Append(front, [events[n] EXCEPT !.trendline = tl]) :
             front \in AggregateEvents(g, events, n - 1),
             tl \in AggregateAt(g, events[n].trendline)}

\* The first n points of a trendline put under key.
RECURSIVE PutPoints(_, _, _, _)
PutPoints(periodMap, trendln, key, n) ==
    \* if (!periodMap.has(period)) periodMap.set(period, {});
    \* periodMap.get(period)[key] = value
    LET PeriodMapPut(periodMap0, period, key0, value) ==
            LET data == IF MapHas(periodMap0, period) THEN MapGet(periodMap0, period)
                        ELSE <<>>
            IN  MapSet(periodMap0, period, SetKey(data, key0, value))
    IN
    IF n = 0 THEN periodMap
    ELSE PeriodMapPut(PutPoints(periodMap, trendln, key, n - 1),
                      trendln[n].period, key, trendln[n].conversations)

\* The indices (from 1) of the entries that hold a value under id.
IndicesWithData(entries, id) ==
    {idx \in 1..Len(entries) : id \in DOMAIN entries[idx].data}

Min(S) == CHOOSE x \in S : \A y \in S : x <= y

Max(S) == CHOOSE x \in S : \A y \in S : x >= y

\* The padding with the zero after the last sample forgotten.
PadEventBeforeOnly(entries, id) ==
    LET indicesWithData == IndicesWithData(entries, id)
    IN  IF indicesWithData = {} THEN entries
        ELSE LET firstIdx == Min(indicesWithData)
             IN  [idx \in 1..Len(entries) |->
                    IF idx = firstIdx - 1
                    THEN [entries[idx] EXCEPT !.data = SetKey(@, id, 0)]
                    ELSE entries[idx]]

\* The padding with the zeros written one entry off, on the first and the
\* last sample themselves.
PadEventOnEnds(entries, id) ==
    LET indicesWithData == IndicesWithData(entries, id)
    IN  IF indicesWithData = {} THEN entries
        ELSE LET firstIdx == Min(indicesWithData)
                 lastIdx == Max(indicesWithData)
             IN  [idx \in 1..Len(entries) |->
                    IF idx = firstIdx \/ idx = lastIdx
                    THEN [entries[idx] EXCEPT !.data = SetKey(@, id, 0)]
                    ELSE entries[idx]]

\* The padding of one event: 0 under its id in the entry before its first
\* and in the entry after its last entry with data, where there is one.
PadEvent(entries, id) ==
    LET indicesWithData == IndicesWithData(entries, id)
    IN  IF indicesWithData = {} THEN entries
        ELSE LET firstIdx == Min(indicesWithData)
                 lastIdx == Max(indicesWithData)
             IN  [idx \in 1..Len(entries) |->
                    IF idx = firstIdx - 1 \/ idx = lastIdx + 1
                    THEN [entries[idx] EXCEPT !.data = SetKey(@, id, 0)]
                    ELSE entries[idx]]

\* The values the memo combinedData may take.
CombinedDataMemo(aggregatedOverall, aggregatedEvents) ==
    \* The first n events padded, in their order.
    LET RECURSIVE PadEvents(_, _, _)
        PadEvents(entries, events, n) ==
            IF n = 0 THEN entries
            ELSE PadEvent(PadEvents(entries, events, n - 1), events[n].id)
    IN
    \* a.date.getTime() - b.date.getTime()
    LET ByEntryDate(a, b) ==
            IF a.date.valid /\ b.date.valid THEN Num(a.date.t - b.date.t) ELSE NaN
    IN
    \* Array.from(periodMap.entries()).map(([period, data]) => ({ period,
    \* date: parsePeriodToDate(period), ...data }))
    LET AxisEntries(periodMap) ==
            [i \in 1..Len(periodMap) |->
                [period |-> periodMap[i].key,
                 date |-> parsePeriodToDate(periodMap[i].key),
                 data |-> periodMap[i].value]]
    IN
    \* The first n events put under their ids.
    LET RECURSIVE PutEvents(_, _, _)
        PutEvents(periodMap, events, n) ==
            IF n = 0 THEN periodMap
            ELSE PutPoints(PutEvents(periodMap, events, n - 1),
                           events[n].trendline, events[n].id, Len(events[n].trendline))
    IN
    LET periodMap == PutEvents(PutPoints(<<>>, aggregatedOverall, "overall",
                                         Len(aggregatedOverall)),
                               aggregatedEvents, Len(aggregatedEvents))
        entries == AxisEntries(periodMap)
    IN  {PadEvents(sorted, aggregatedEvents, Len(aggregatedEvents)) :
            sorted \in sort(entries, [a \in Elements(entries), b \in Elements(entries)
                                         |-> SortSign(ByEntryDate(a, b))])}

-----------------------------------------------------------------------------
(* Numbers of the Timeline's axis code: IEEE 754 doubles, computed.  A     *)
(* natural number is the sequence of its 15-bit limbs, lowest first,       *)
(* without high zero limbs.  A double is NaN, an infinity, or              *)
(* (-1)^neg * mant * 2^exp with mant odd or zero; every operation is the   *)
(* exact result rounded to 53 significant bits, ties to even (the values   *)
(* met here are far from the subnormal and the overflow range).            *)

Limb == 2 ^ 15

RECURSIVE TrimN(_)
TrimN(a) == IF a # <<>> /\ a[Len(a)] = 0 THEN TrimN(SubSeq(a, 1, Len(a) - 1)) ELSE a

RECURSIVE NatOf(_)
NatOf(n) == IF n = 0 THEN <<>> ELSE <<n % Limb>> \o NatOf(n \div Limb)

RECURSIVE IntOf(_)
IntOf(a) == IF a = <<>> THEN 0 ELSE a[1] + Limb * IntOf(Tail(a))

LimbAt(a, i) == IF i <= Len(a) THEN a[i] ELSE 0

AddN(a, b) ==
    LET RECURSIVE From(_, _)
        From(i, carry) ==
            IF i > Len(a) /\ i > Len(b) THEN (IF carry = 0 THEN <<>> ELSE <<carry>>)
            ELSE LET s == LimbAt(a, i) + LimbAt(b, i) + carry
                 IN  <<s % Limb>> \o From(i + 1, s \div Limb)
    IN  From(1, 0)

\* a - b for a >= b
SubN(a, b) ==
    LET RECURSIVE From(_, _)
        From(i, borrow) ==
            IF i > Len(a) THEN <<>>
            ELSE LET s == LimbAt(a, i) - LimbAt(b, i) - borrow
                 IN  <<s % Limb>> \o From(i + 1, IF s < 0 THEN 1 ELSE 0)
    IN  TrimN(From(1, 0))

LeqN(a, b) ==
    LET RECURSIVE From(_)
        From(i) == IF i = 0 THEN TRUE
                   ELSE IF a[i] # b[i] THEN a[i] < b[i]
                   ELSE From(i - 1)
    IN  IF Len(a) # Len(b) THEN Len(a) < Len(b) ELSE From(Len(a))

\* a * k for 0 <= k < 2^15
MulSmall(a, k) ==
    LET RECURSIVE From(_, _)
        From(i, carry) ==
            IF i > Len(a) THEN (IF carry = 0 THEN <<>> ELSE <<carry>>)
            ELSE LET s == a[i] * k + carry
                 IN  <<s % Limb>> \o From(i + 1, s \div Limb)
    IN  IF k = 0 THEN <<>> ELSE From(1, 0)

ShlLimbs(a, n) == IF a = <<>> THEN <<>> ELSE [i \in 1..n |-> 0] \o a

RECURSIVE MulN(_, _)
MulN(a, b) ==
    IF b = <<>> THEN <<>>
    ELSE AddN(MulSmall(a, b[1]), ShlLimbs(MulN(a, Tail(b)), 1))

\* a * 2^k and floor(a / 2^k)
ShlN(a, k) == MulSmall(ShlLimbs(a, k \div 15), 2 ^ (k % 15))

ShrN(a, k) ==
    LET c == SubSeq(a, (k \div 15) + 1, Len(a))
        p == 2 ^ (k % 15)
    IN  TrimN([i \in 1..Len(c) |->
                  (c[i] \div p) + (LimbAt(c, i + 1) % p) * (Limb \div p)])

\* The number of bits of a, and the number of its low zero bits (a > 0).
BitLen(a) ==
    LET RECURSIVE Small(_)
        Small(n) == IF n = 0 THEN 0 ELSE 1 + Small(n \div 2)
    IN  IF a = <<>> THEN 0 ELSE 15 * (Len(a) - 1) + Small(a[Len(a)])

RECURSIVE TrailingZeros(_)
TrailingZeros(a) ==
    IF a[1] = 0 THEN 15 + TrailingZeros(Tail(a))
    ELSE IF a[1] % 2 = 1 THEN 0
    ELSE 1 + TrailingZeros(<<a[1] \div 2>>)

\* Bit i of a, bit 0 being the lowest.
BitN(a, i) == (LimbAt(a, (i \div 15) + 1) \div (2 ^ (i % 15))) % 2

\* Long division by b > 0: the bits hi, hi - 1, ..., lo of a taken into the
\* quotient q and remainder r of st, one bit a step.
RECURSIVE DivSteps(_, _, _, _, _)
DivSteps(st, a, b, hi, lo) ==
    IF hi < lo THEN st
    ELSE IF hi = lo
    THEN LET r2 == AddN(MulSmall(st.r, 2), NatOf(BitN(a, hi)))
         IN  IF LeqN(b, r2)
             THEN [q |-> AddN(MulSmall(st.q, 2), <<1>>), r |-> SubN(r2, b)]
             ELSE [q |-> MulSmall(st.q, 2), r |-> r2]
    ELSE LET mid == (hi + lo + 1) \div 2
             upper == DivSteps(st, a, b, hi, mid)
         IN  IF LeqN(b, upper.r) THEN upper   \* never: a remainder is below b
             ELSE DivSteps(upper, a, b, mid - 1, lo)

DNaN == [cls |-> "nan", neg |-> FALSE, mant |-> <<>>, exp |-> 0]

DInfinity(neg) == [cls |-> "inf", neg |-> neg, mant |-> <<>>, exp |-> 0]

\* The double (-1)^neg * mant * 2^exp for a mant of at most 53 bits once
\* its low zero bits are moved into exp.
Finite(neg, mant, exp) ==
    IF mant = <<>> THEN [cls |-> "num", neg |-> neg, mant |-> <<>>, exp |-> 0]
    ELSE LET z == TrailingZeros(mant)
         IN  [cls |-> "num", neg |-> neg, mant |-> ShrN(mant, z), exp |-> exp + z]

\* The double nearest to mant * 2^exp, or to a value just above it when
\* sticky: ties to even.
RoundMant(neg, mant, exp, sticky) ==
    IF BitLen(mant) <= 53 THEN Finite(neg, mant, exp)
    ELSE LET d == BitLen(mant) - 53
             kept == ShrN(mant, d)
             below == sticky \/ ShlN(ShrN(mant, d - 1), d - 1) # mant
             up == BitN(mant, d - 1) = 1 /\ (below \/ BitN(kept, 0) = 1)
         IN  Finite(neg, IF up THEN AddN(kept, <<1>>) ELSE kept, exp + d)

IsZero(x) == x.cls = "num" /\ x.mant = <<>>

\* An integer of the int32 range as a double.
DoubleOf(n) == Finite(n < 0, NatOf(IF n < 0 THEN -n ELSE n), 0)

NegD(x) == IF x.cls = "nan" THEN x ELSE [x EXCEPT !.neg = ~x.neg]

\* x * y
MulD(x, y) ==
    IF x.cls = "nan" \/ y.cls = "nan" THEN DNaN
    ELSE IF x.cls = "inf" \/ y.cls = "inf"
         THEN (IF IsZero(x) \/ IsZero(y) THEN DNaN ELSE DInfinity(x.neg # y.neg))
    ELSE RoundMant(x.neg # y.neg, MulN(x.mant, y.mant), x.exp + y.exp, FALSE)

\* x / y
DivD(x, y) ==
    IF x.cls = "nan" \/ y.cls = "nan" THEN DNaN
    ELSE IF x.cls = "inf"
         THEN (IF y.cls = "inf" THEN DNaN ELSE DInfinity(x.neg # y.neg))
    ELSE IF y.cls = "inf" THEN Finite(x.neg # y.neg, <<>>, 0)
    ELSE IF IsZero(y)
         THEN (IF IsZero(x) THEN DNaN ELSE DInfinity(x.neg # y.neg))
    ELSE IF IsZero(x) THEN Finite(x.neg # y.neg, <<>>, 0)
    ELSE LET s == 55 + BitLen(y.mant) - BitLen(x.mant)
             num == ShlN(x.mant, s)
             qr == DivSteps([q |-> <<>>, r |-> <<>>], num, y.mant, BitLen(num) - 1, 0)
         IN  RoundMant(x.neg # y.neg, qr.q, x.exp - y.exp - s, qr.r # <<>>)

\* x + y
AddD(x, y) ==
    IF x.cls = "nan" \/ y.cls = "nan" THEN DNaN
    ELSE IF x.cls = "inf"
         THEN (IF y.cls = "inf" /\ x.neg # y.neg THEN DNaN ELSE x)
    ELSE IF y.cls = "inf" THEN y
    ELSE IF IsZero(x) THEN (IF IsZero(y) THEN Finite(x.neg /\ y.neg, <<>>, 0) ELSE y)
    ELSE IF IsZero(y) THEN x
    ELSE LET e == IF x.exp < y.exp THEN x.exp ELSE y.exp
             a == ShlN(x.mant, x.exp - e)
             b == ShlN(y.mant, y.exp - e)
         IN  IF x.neg = y.neg THEN RoundMant(x.neg, AddN(a, b), e, FALSE)
             ELSE IF a = b THEN Finite(FALSE, <<>>, 0)
             ELSE IF LeqN(b, a) THEN RoundMant(x.neg, SubN(a, b), e, FALSE)
             ELSE RoundMant(y.neg, SubN(b, a), e, FALSE)

SubD(x, y) == AddD(x, NegD(y))

\* x < y for finite doubles
LessD(x, y) == LET d == SubD(x, y) IN d.neg /\ ~IsZero(d)

\* parseFloat of the decimal with one digit after the point that is n / 10:
\* the double nearest to it.
DoubleOfTenths(n) == DivD(DoubleOf(n), DoubleOf(10))

\* Math.floor of a finite double of the int32 range, as an integer;
\* Math.ceil(x) is -Math.floor(-x).
FloorD(x) ==
    IF x.exp >= 0 THEN (IF x.neg THEN -1 ELSE 1) * IntOf(ShlN(x.mant, x.exp))
    ELSE LET q == IntOf(ShrN(x.mant, -x.exp))
         IN  IF x.neg THEN -(q + 1) ELSE q

-----------------------------------------------------------------------------
(* Timeline component: the memos of the two Y axes.  A sales value is kept *)
(* as the number of tenths its source text denotes ("-1.8%" is -18) and    *)
(* enters the arithmetic as the double parseFloat gives for that text.     *)

\* The salesData prop left out.
NoSalesData == [defined |-> FALSE, geographies |-> <<>>]

AbsD(x) == IF x.cls = "nan" THEN x ELSE [x EXCEPT !.neg = FALSE]

\* Math.max(...chartData.map(d => d.conversations)): -Infinity of no points.
MaxConversationsMemo(points) ==
    IF points = <<>> THEN DInfinity(TRUE)
    ELSE DoubleOf(Max({points[i] : i \in 1..Len(points)}))

SalesDomainMemo(sales) ==
    \* salesData.geographies.forEach from geography g on.
    LET RECURSIVE ScanGeographies(_, _, _)
        ScanGeographies(geographies, g, acc) ==
            \* geo.data.forEach from point i on: min and max lowered and raised.
            LET RECURSIVE ScanData(_, _, _)
                ScanData(data, i, acc0) ==
                    IF i > Len(data) THEN acc0
                    ELSE LET value == DoubleOfTenths(data[i])
                         IN  ScanData(data, i + 1,
                                      [min |-> IF LessD(value, acc0.min) THEN value ELSE acc0.min,
                                       max |-> IF LessD(acc0.max, value) THEN value ELSE acc0.max])
            IN
            IF g > Len(geographies) THEN acc
            ELSE ScanGeographies(geographies, g + 1, ScanData(geographies[g], 1, acc))
    IN
    IF ~sales.defined THEN [min |-> -20, max |-> 15]
    ELSE CHOOSE domain \in
             {[min |-> FloorD(SubD(s.found.min, s.padding)),
               max |-> -FloorD(NegD(AddD(s.found.max, s.padding)))]
                 : s \in {[found |-> found,
                           padding |-> MulD(IF LessD(AbsD(found.min), AbsD(found.max))
                                            THEN AbsD(found.max) ELSE AbsD(found.min),
                                            DoubleOfTenths(1))]
                             : found \in {ScanGeographies(sales.geographies, 1,
                                                          [min |-> DoubleOf(0),
                                                           max |-> DoubleOf(0)])}}} : TRUE

ConversationDomainFlat(sales, shown, reach, domain, maxConv) ==
    [min |-> DoubleOf(0), max |-> maxConv]

ConversationDomainMemo(sales, shown, reach, domain, maxConv) ==
    IF ~sales.defined \/ ~shown \/ reach
    THEN [min |-> DoubleOf(0), max |-> maxConv]
    ELSE LET salesRange == SubD(DoubleOf(domain.max), DoubleOf(domain.min))
             salesZeroRatio == DivD(AbsD(DoubleOf(domain.min)), salesRange)
             convMin == DivD(MulD(NegD(maxConv), salesZeroRatio),
                             SubD(DoubleOf(1), salesZeroRatio))
         IN  [min |-> convMin, max |-> maxConv]

-----------------------------------------------------------------------------
(* page.tsx: the entries made of a record of rawData.  A record is a       *)
(* record with or without its optional fields; its date is kept as the     *)
(* calendar fields its ISO text denotes.                                   *)

eventImageMap ==
    ("Elon 'Never Quit' Tweet" :> "/events/elon-never-quit.png")
        @@ ("Trump's Diet Coke Button Return" :> "/events/trump-diet-coke-button.png")
        @@ ("WHO Aspartame Cancer Ruling" :> "/events/who-risk.png")
        @@ ("Dua Lipa 'Dirty Cola' Viral" :> "/events/dualipa-cola.png")
        @@ ("GST 'Sin Tax' Hike (India 40%)" :> "")
        @@ ("Trump/Elon/RFK Jet Photo" :> "/events/trump-elon-rfk-pvtjet.png")
        @@ ("'Fridge Cigarette' Trend" :> "/events/fridge-cig.png")
        @@ ("Diet Coke vs Coke Zero Content (India)" :> "/events/coke-zero-vs-diet-coke.png")
        @@ ("Diet Coke India" :> "")

\* Number.prototype.toLocaleString() of a non-negative integer under the
\* default locale: the digits in groups, of three with "," (en-US) or "."
\* (de-DE), or of three and then two with "," (en-IN).
LocaleString(n, locale) ==
    LET sep == IF locale = "de-DE" THEN "." ELSE ","
        RECURSIVE Grouped(_, _)
        Grouped(s, size) ==
            IF Len(s) <= size THEN s
            ELSE Grouped(SubSeq(s, 1, Len(s) - size), IF locale = "en-IN" THEN 2 ELSE 3)
                     \o <<sep>> \o SubSeq(s, Len(s) - size + 1, Len(s))
    IN  Grouped(NumToString(Num(n)), 3)

\* The entry of events with a missing description left empty, and no date.
EventsEntryEmptyDescription(item, index, rt) ==
    [id |-> <<"e", "v", "e", "n", "t", "-">> \o NumToString(Num(index + 1)),
     date |-> <<>>,
     title |-> item.event_name,
     description |-> IF "description" \in DOMAIN item THEN item.description ELSE <<>>,
     image |-> IF item.event_name \in DOMAIN eventImageMap
               THEN eventImageMap[item.event_name] ELSE "",
     impact |-> LocaleString(item.total_conv_vol, rt.locale) \o <<" ", "c", "o", "n", "v", "e", "r", "s", "a", "t", "i", "o", "n", "s">>,
     indianParticipation |->
         IF "indian_participation" \in DOMAIN item THEN item.indian_participation ELSE 0]

\* The entry of events for the record at index: isoToChartDate reads the
\* ISO date as UTC midnight, which is the day before in local time behind
\* UTC, and formats as the overlay's month label does.
EventsEntry(item, index, rt) ==
    LET volume == LocaleString(item.total_conv_vol, rt.locale)
        isoToChartDate(iso) ==
            MonthLabel([valid |-> TRUE,
                        t |-> DaysFromCivil(iso.y, iso.m, iso.d) - (IF rt.west THEN 1 ELSE 0)])
    IN  [id |-> <<"e", "v", "e", "n", "t", "-">> \o NumToString(Num(index + 1)),
         date |-> IF "date" \in DOMAIN item THEN isoToChartDate(item.date) ELSE <<>>,
         title |-> item.event_name,
         description |->
             IF "description" \in DOMAIN item /\ item.description # <<>>
             THEN item.description
             ELSE <<"T", "o", "t", "a", "l", " ", "c", "o", "n", "v", "e", "r", "s", "a", "t", "i", "o", "n", " ", "v", "o", "l", "u", "m", "e", ":", " ">> \o volume,
         image |-> IF item.event_name \in DOMAIN eventImageMap
                   THEN eventImageMap[item.event_name] ELSE "",
         impact |-> volume \o <<" ", "c", "o", "n", "v", "e", "r", "s", "a", "t", "i", "o", "n", "s">>,
         indianParticipation |->
             IF "indian_participation" \in DOMAIN item THEN item.indian_participation ELSE 0]

-----------------------------------------------------------------------------
(* page.tsx: transformSalesData; Timeline: the memos combinedChartData,    *)
(* dateToConversations, firstChartDate and eventMarkers.  A value that may *)
(* be undefined is <<>> when it is and <<v>> when it is v; the keys a row  *)
(* gets by computed name are kept in its field sales, a Map from key to    *)
(* value.                                                                  *)

\* null, of a state or ref that is null or a value v: v is then <<v>>.
null == <<>>

\* Object.entries(rawSales).map(...): a geography per name, a data point
\* per month key, the period `${parts[0]} 1, ${parts[1].slice(-2)}` (a key
\* without a space has no parts[1]: UndefinedStr stands for the TypeError
\* of undefined.slice) and the value parseFloat(valueStr.replace("%", "")),
\* in tenths for text of at most one decimal.
transformSalesData(rawSales) ==
    LET geographyColors ==
            (<<"U", "n", "i", "t", "e", "d", " ", "S", "t", "a", "t", "e", "s", " ", "o", "f", " ", "A", "m", "e", "r", "i", "c", "a">> :> "#F40009") @@ (<<"U", "n", "i", "t", "e", "d", " ", "K", "i", "n", "g", "d", "o", "m">> :> "#10B981")
                @@ (<<"C", "a", "n", "a", "d", "a">> :> "#F97316") @@ (<<"I", "n", "d", "i", "a">> :> "#8B5CF6")
        RECURSIVE RemoveFirstPercent(_)
        RemoveFirstPercent(s) ==
            IF s = <<>> THEN <<>>
            ELSE IF Head(s) = "%" THEN Tail(s)
            ELSE <<Head(s)>> \o RemoveFirstPercent(Tail(s))
        parseFloat(s) ==
            LET signed == s # <<>> /\ s[1] \in {"-", "+"}
                from == IF signed THEN 2 ELSE 1
                whole == parseInt(SubSeq(s, from, Len(s)))
                RECURSIVE DigitsEnd(_)
                DigitsEnd(i) == IF i > Len(s) \/ ~IsDigit(s[i]) THEN i ELSE DigitsEnd(i + 1)
                dot == DigitsEnd(from)
                hasTenth == dot < Len(s) /\ s[dot] = "." /\ IsDigit(s[dot + 1])
                tenths == (IF whole.nan THEN 0 ELSE 10 * whole.v)
                              + (IF hasTenth THEN DigitVal(s[dot + 1]) ELSE 0)
            IN  IF from > Len(s) \/ (~IsDigit(s[from]) /\ (dot # from \/ ~hasTenth)) THEN NaN
                ELSE IF signed /\ s[1] = "-" THEN Num(-tenths)
                ELSE Num(tenths)
        Point(entry) ==
            LET parts == Split(entry.month)
            IN  [period |-> parts[1] \o <<" ", "1", ",", " ">>
                               \o (IF Len(parts) >= 2 THEN SliceLast2(parts[2])
                                   ELSE UndefinedStr),
                 value |-> parseFloat(RemoveFirstPercent(entry.valueStr))]
    IN  [description |-> "Year-over-Year % Change in Diet Coke Sales by Geography",
         geographies |->
             [g \in 1..Len(rawSales) |->
                 [name |-> rawSales[g].name,
                  color |-> IF rawSales[g].name \in DOMAIN geographyColors
                            THEN geographyColors[rawSales[g].name] ELSE "#6B7280",
                  data |-> [i \in 1..Len(rawSales[g].months) |->
                               Point(rawSales[g].months[i])]]]]

\* The first value of each geography on every row, whatever the dates.
CombinedChartDataNoMatch(chart, india, sales, reach) ==
    [i \in 1..Len(chart) |->
        [date |-> chart[i].date, conversations |-> chart[i].conversations,
         india |-> <<>>,
         sales |-> IF sales = <<>> \/ reach THEN <<>>
                   ELSE [g \in 1..Len(sales[1].geographies) |->
                            [key |-> <<"s", "a", "l", "e", "s", "_">>
                                        \o [c \in 1..Len(sales[1].geographies[g].name) |->
                                               IF sales[1].geographies[g].name[c] = " "
                                               THEN "_"
                                               ELSE sales[1].geographies[g].name[c]],
                             value |-> sales[1].geographies[g].data[1].value]]]]

\* combinedChartData: a fresh row { ...d, india: undefined } per chart
\* point; india from the Map of indiaTrendline by period; then, with
\* salesData and not in the reach view, for each geography the Map of its
\* data by period (a later point of the same period replacing the earlier)
\* and, on each row whose date has a value in it, the key
\* `sales_${geo.name.replace(/\s+/g, '_')}`.
CombinedChartDataMemo(chart, india, sales, reach) ==
    LET RECURSIVE ByPeriod(_, _)
        ByPeriod(points, field) ==
            IF points = <<>> THEN <<>>
            ELSE MapSet(ByPeriod(SubSeq(points, 1, Len(points) - 1), field),
                        points[Len(points)].period, points[Len(points)][field])
        RECURSIVE Underscored(_, _)
        Underscored(s, inSpace) ==
            IF s = <<>> THEN <<>>
            ELSE IF Head(s) \in {" ", "\t", "\n"}
            THEN (IF inSpace THEN <<>> ELSE <<"_">>) \o Underscored(Tail(s), TRUE)
            ELSE <<Head(s)>> \o Underscored(Tail(s), FALSE)
        indiaMap == IF india = <<>> THEN <<>> ELSE ByPeriod(india[1], "conversations")
        RECURSIVE WithSales(_, _)
        WithSales(d, g) ==
            IF g = 0 THEN d
            ELSE LET geo == sales[1].geographies[g]
                     salesMap == ByPeriod(geo.data, "value")
                     row == WithSales(d, g - 1)
                 IN  IF MapHas(salesMap, row.date)
                     THEN [row EXCEPT !.sales =
                              MapSet(@, <<"s", "a", "l", "e", "s", "_">>
                                            \o Underscored(geo.name, FALSE),
                                     MapGet(salesMap, row.date))]
                     ELSE row
        Row(d) ==
            LET baseRow == [date |-> d.date, conversations |-> d.conversations,
                            india |-> IF india # <<>> /\ MapHas(indiaMap, d.date)
                                      THEN <<MapGet(indiaMap, d.date)>> ELSE <<>>,
                            sales |-> <<>>]
            IN  IF sales # <<>> /\ ~reach
                THEN WithSales(baseRow, Len(sales[1].geographies))
                ELSE baseRow
    IN  [i \in 1..Len(chart) |-> Row(chart[i])]

\* Every marker on its event's own date, in the chart or not.
EventMarkersKeepDate(eventList, chart) ==
    [e \in 1..Len(eventList) |->
        [k \in (DOMAIN eventList[e]) \cup {"conversations"} |->
            IF k = "conversations" THEN 0 ELSE eventList[e][k]]]

\* eventMarkers, with dateToConversations (a later chart point of the same
\* date replacing the earlier) and firstChartDate ("" of an empty chart):
\* { ...event, date: displayDate, conversations } per event, displayDate
\* the event's date if the chart has it and firstChartDate otherwise,
\* conversations dateToConversations.get(displayDate) || 0.
EventMarkersMemo(eventList, chart) ==
    LET RECURSIVE DateToConversations(_)
        DateToConversations(n) ==
            IF n = 0 THEN <<>>
            ELSE MapSet(DateToConversations(n - 1), chart[n].date, chart[n].conversations)
        dateToConversations == DateToConversations(Len(chart))
        firstChartDate == IF Len(chart) > 0 THEN chart[1].date ELSE <<>>
        Marker(event) ==
            LET displayDate == IF MapHas(dateToConversations, event.date)
                               THEN event.date ELSE firstChartDate
                conversations == IF MapHas(dateToConversations, displayDate)
                                 THEN MapGet(dateToConversations, displayDate) ELSE 0
            IN  [k \in (DOMAIN event) \cup {"conversations"} |->
                    IF k = "date" THEN displayDate
                    ELSE IF k = "conversations" THEN conversations
                    ELSE event[k]]
    IN  [e \in 1..Len(eventList) |-> Marker(eventList[e])]

-----------------------------------------------------------------------------
(* Inputs *)

\* The longest trendline explored.
MaxLen == 2

\* "Mon D, YY" from its three tokens.
DayLabel(mon, d, yy) == mon \o <<" ">> \o d \o <<",", " ">> \o yy

\* "Mon YY"
MonthOnlyLabel(mon, yy) == mon \o <<" ">> \o yy

LabelYears == {0, 22, 24, 49, 50, 99}

TwoDigits(n) == <<Digits[(n \div 10) + 1], Digits[(n % 10) + 1]>>

DayDigits(n) == IF n < 10 THEN <<Digits[n + 1]>> ELSE TwoDigits(n)

\* The year a two-digit year denotes and the length of its months.
DenotedYear(yy) == IF yy < 50 THEN 2000 + yy ELSE 1900 + yy

IsLeap(y) == (y % 4 = 0 /\ y % 100 # 0) \/ y % 400 = 0

DaysInMonth(y, m) ==
    IF m = 2 THEN (IF IsLeap(y) THEN 29 ELSE 28)
    ELSE IF m \in {4, 6, 9, 11} THEN 30 ELSE 31

DailyLabels ==
    \* Labels of the parser's inputs: month 1..12, day of the month and the
    \* two-digit year written out, the day without a leading zero.
    LET LabelDays == {1, 2, 9, 10, 26, 28, 29, 30, 31}
    IN
    {[kind |-> "daily", m |-> m, d |-> d, yy |-> yy,
      text |-> DayLabel(monthNames[m], DayDigits(d), TwoDigits(yy))] :
        <<m, d, yy>> \in {x \in (1..12) \X LabelDays \X LabelYears :
                             x[2] <= DaysInMonth(DenotedYear(x[3]), x[1])}}

MonthlyLabels ==
    {[kind |-> "monthly", m |-> m, d |-> 1, yy |-> yy,
      text |-> MonthOnlyLabel(monthNames[m], TwoDigits(yy))] :
        <<m, yy>> \in (1..12) \X LabelYears}

NoLabel == [kind |-> "none", m |-> 1, d |-> 1, yy |-> 0, text |-> <<>>]

\* The samples trendlines are made of: well-formed weekly samples (two in
\* one month and one week apart, one starting four days after another, two
\* on either side of the year 2000, one on the first day the year rule
\* gives to 50 and one in the last week it gives to 49), with and without
\* reach, and samples with a malformed label
\* (two tokens, an unknown month, a day that is no number).
Samples ==
    { [period |-> DayLabel(monthNames[12], <<"2", "6">>, <<"2", "2">>), conversations |-> 700, reach |-> 9],
      [period |-> DayLabel(monthNames[12], <<"3", "0">>, <<"2", "2">>), conversations |-> 10],
      [period |-> DayLabel(monthNames[1], <<"2">>, <<"2", "3">>), conversations |-> 1, reach |-> 0],
      [period |-> DayLabel(monthNames[12], <<"2", "7">>, <<"9", "9">>), conversations |-> 5],
      [period |-> DayLabel(monthNames[1], <<"3">>, <<"0", "0">>), conversations |-> 7, reach |-> 2],
      [period |-> DayLabel(monthNames[1], <<"1">>, <<"5", "0">>), conversations |-> 4],
      [period |-> DayLabel(monthNames[12], <<"2", "6">>, <<"4", "9">>), conversations |-> 6, reach |-> 3],
      [period |-> MonthOnlyLabel(monthNames[12], <<"2", "2">>), conversations |-> 3, reach |-> 1],
      [period |-> DayLabel(<<"F", "o", "o">>, <<"5">>, <<"2", "3">>), conversations |-> 3],
      [period |-> DayLabel(monthNames[1], <<"x">>, <<"2", "3">>), conversations |-> 7] }

-----------------------------------------------------------------------------
(* The state machine: each function applied to the input of the state *)

Idle ==
    /\ date = InvalidDate
    /\ weekStart = InvalidDate
    /\ relabel = <<>>
    /\ called = <<>>
    /\ dailyData = <<>>
    /\ pageMonthly = <<>>
    /\ ovWeekly = <<>>
    /\ ovMonthly = <<>>
    /\ again = <<>>

\* Nothing drawn from the generator yet.
NoWord == [hi |-> -1, lo |-> -1]

IdleSeed ==
    /\ baseSeed = 0
    /\ random = NoWord
    /\ weights7 = <<>>

\* The overlay with no series to show.
IdleOverlay ==
    /\ overallTrendline = <<>>
    /\ eventTrendlines = <<>>
    /\ granularity = "daily"
    /\ aggregatedOverallTrendline = <<>>
    /\ aggregatedEventTrendlines = <<>>
    /\ combinedData = <<>>

\* The Timeline not mounted.
IdleTimeline ==
    /\ chartData = <<>>
    /\ salesData = NoSalesData
    /\ isReachView = FALSE
    /\ showSalesData = TRUE
    /\ maxConversations = DInfinity(TRUE)
    /\ salesDomain = [min |-> -20, max |-> 15]
    /\ conversationDomain = [min |-> DoubleOf(0), max |-> DInfinity(TRUE)]

\* No fixture record taken up.
IdleFixture ==
    /\ rawItem = [event_name |-> "", total_conv_vol |-> 0]
    /\ itemIndex = 0
    /\ runtime = [locale |-> "en-US", west |-> FALSE]
    /\ timelineEvent = <<>>
    /\ reachEvent = <<>>

\* The page not loaded: no sales, no events, nothing rendered, the state
\* of every component as useState and useRef make it.
IdlePage ==
    /\ dcSalesRaw = <<>>
    /\ pageEvents = <<>>
    /\ monthlyTrendline = <<>>
    /\ indiaMonthly = <<>>
    /\ combinedChartData = <<>>
    /\ eventMarkers = <<>>
    /\ viewMode = "timeline"
    /\ highlightedEvent = null
    /\ highlightTimers = <<>>
    /\ onEventClickCalls = <<>>
    /\ hoveredEvent = null
    /\ tooltipPosition = null
    /\ hideTimeoutRef = null
    /\ hideTimers = {}
    /\ lastTimeoutId = 0
    /\ mouseEvents = [last |-> "none", alternate |-> TRUE, cancelled |-> FALSE]
    /\ isTouch = FALSE
    /\ isMobile = FALSE
    /\ selectedEvents = {}
    /\ showOverall = TRUE
    /\ selectedGeographies = {}

Init ==
    /\ label = NoLabel
    /\ trendline \in UNION {[1..n -> Samples] : n \in 0..MaxLen}
    /\ Idle
    /\ IdleSeed
    /\ IdleOverlay
    /\ IdleTimeline
    /\ IdleFixture
    /\ IdlePage

InitLabel ==
    /\ label \in DailyLabels \cup MonthlyLabels
    /\ trendline = <<>>
    /\ Idle
    /\ IdleSeed
    /\ IdleOverlay
    /\ IdleTimeline
    /\ IdleFixture
    /\ IdlePage

\* The padding written into the trendline itself.
WeeklyToDailyInPlace ==
    /\ called = <<>>
    /\ dailyData' = weeklyToDaily(trendline)
    /\ trendline' = dailyData'
    /\ called' = <<"weeklyToDaily">>
    /\ UNCHANGED <<restVars, label, date, weekStart, relabel,
                   pageMonthly, ovWeekly, ovMonthly, again>>

WeeklyToDaily ==
    /\ called = <<>>
    /\ dailyData' = weeklyToDaily(trendline)
    /\ called' = <<"weeklyToDaily">>
    /\ UNCHANGED <<restVars, label, date, weekStart, relabel, trendline,
                   pageMonthly, ovWeekly, ovMonthly, again>>

AggregateToMonthly ==
    /\ called = <<>>
    /\ pageMonthly' \in aggregateToMonthly(trendline)
    /\ called' = <<"aggregateToMonthly">>
    /\ UNCHANGED <<restVars, label, date, weekStart, relabel, trendline,
                   dailyData, ovWeekly, ovMonthly, again>>

OverlayAggregateToWeekly ==
    /\ called = <<>>
    /\ ovWeekly' \in aggregateToWeekly(trendline)
    /\ called' = <<"overlay.aggregateToWeekly">>
    /\ UNCHANGED <<restVars, label, date, weekStart, relabel, trendline,
                   dailyData, pageMonthly, ovMonthly, again>>

OverlayAggregateToMonthly ==
    /\ called = <<>>
    /\ ovMonthly' \in overlayAggregateToMonthly(trendline)
    /\ called' = <<"overlay.aggregateToMonthly">>
    /\ UNCHANGED <<restVars, label, date, weekStart, relabel, trendline,
                   dailyData, pageMonthly, ovWeekly, again>>

\* An aggregator applied to the series it returned.
AggregateAgain ==
    /\ Len(called) = 1
    /\ called[1] \in {"aggregateToMonthly", "overlay.aggregateToWeekly",
                      "overlay.aggregateToMonthly"}
    /\ again' \in CASE called[1] = "aggregateToMonthly" -> aggregateToMonthly(pageMonthly)
                    [] called[1] = "overlay.aggregateToWeekly" -> aggregateToWeekly(ovWeekly)
                    [] OTHER -> overlayAggregateToMonthly(ovMonthly)
    /\ called' = Append(called, "again")
    /\ UNCHANGED <<restVars, label, date, weekStart, relabel, trendline,
                   dailyData, pageMonthly, ovWeekly, ovMonthly>>

Next ==
    \/ WeeklyToDaily
    \/ AggregateToMonthly
    \/ OverlayAggregateToWeekly
    \/ OverlayAggregateToMonthly
    \/ AggregateAgain

Spec == Init /\ [][Next]_vars

-----------------------------------------------------------------------------
(* The parser, the week start and the label formatters on one label *)

ParsePeriodToDate ==
    /\ called = <<>>
    /\ date' = parsePeriodToDate(label.text)
    /\ called' = <<"parsePeriodToDate">>
    /\ UNCHANGED <<restVars, label, weekStart, relabel, trendline,
                   dailyData, pageMonthly, ovWeekly, ovMonthly, again>>

\* The start date weeklyToDaily derives from a 3-token label.
WeeklyStartDate ==
    /\ called = <<>>
    /\ Len(Split(label.text)) = 3
    /\ date' = StartFields(Split(label.text)).startDate
    /\ called' = <<"weeklyToDaily.startDate">>
    /\ UNCHANGED <<restVars, label, weekStart, relabel, trendline,
                   dailyData, pageMonthly, ovWeekly, ovMonthly, again>>

GetWeekStart ==
    /\ called = <<"parsePeriodToDate">>
    /\ weekStart' = getWeekStart(date)
    /\ called' = Append(called, "getWeekStart")
    /\ UNCHANGED <<restVars, label, date, relabel, trendline,
                   dailyData, pageMonthly, ovWeekly, ovMonthly, again>>

\* The daily formatter of aggregateToWeekly and weeklyToDaily.
FormatDay ==
    /\ called = <<"parsePeriodToDate">>
    /\ relabel' = FormatDayLabel(date)
    /\ called' = Append(called, "formatDay")
    /\ UNCHANGED <<restVars, label, date, weekStart, trendline,
                   dailyData, pageMonthly, ovWeekly, ovMonthly, again>>

\* The monthly formatter of the overlay's aggregateToMonthly.
FormatMonth ==
    /\ called = <<"parsePeriodToDate">>
    /\ relabel' = MonthLabel(date)
    /\ called' = Append(called, "formatMonth")
    /\ UNCHANGED <<restVars, label, date, weekStart, trendline,
                   dailyData, pageMonthly, ovWeekly, ovMonthly, again>>

NextLabel ==
    \/ ParsePeriodToDate
    \/ WeeklyStartDate
    \/ GetWeekStart
    \/ FormatDay
    \/ FormatMonth

SpecLabel == InitLabel /\ [][NextLabel]_vars

-----------------------------------------------------------------------------
(* The generator and the 7 raw weights on one seed *)

\* The largest small seed explored, on either side of 0.
MaxSeed == 40

\* Seeds: the small integers, seeds of the form weeklyToDaily builds
\* (fullYear * 10000 + month * 100 + day + i * 31), and seeds around the
\* values where seed + 0x6D2B79F5 passes 2^31 and 2^32.
InitSeed ==
    /\ label = NoLabel
    /\ trendline = <<>>
    /\ Idle
    /\ baseSeed \in (-MaxSeed..MaxSeed)
           \cup {20221226, 20221230, 20230102, 19991227, 20000103, 19500101,
                 20491226, 20221257, 20230133}
           \cup {315917834, 315917835, 315917836, -1831565813, -1831565814}
    /\ random = NoWord
    /\ weights7 = <<>>
    /\ IdleOverlay
    /\ IdleTimeline
    /\ IdleFixture
    /\ IdlePage

SeededRandom ==
    /\ random = NoWord
    /\ random' = seededRandom(Num(baseSeed))
    /\ UNCHANGED <<pageVars, overlayVars, timelineVars, fixtureVars, baseSeed, weights7, label, date, weekStart, relabel, trendline,
                   called, dailyData, pageMonthly, ovWeekly, ovMonthly, again>>

\* The first loop of weeklyToDaily's pass for one sample: the 7 raw
\* weights whose seeds are baseSeed, baseSeed + 7, ..., baseSeed + 42.
RawWeights ==
    /\ weights7 = <<>>
    /\ weights7' = [d \in 0..6 |-> RawWeight(Num(baseSeed + d * 7))]
    /\ UNCHANGED <<pageVars, overlayVars, timelineVars, fixtureVars, baseSeed, random, label, date, weekStart, relabel, trendline,
                   called, dailyData, pageMonthly, ovWeekly, ovMonthly, again>>

SpecSeed == InitSeed /\ [][SeededRandom \/ RawWeights]_vars

-----------------------------------------------------------------------------
(* The overlay component: its memos under the granularity toggle *)

\* The periods of the shared axis: two days of one week, the Mondays of
\* the next two weeks, a day of the month after.
OverlayPeriods ==
    << DayLabel(monthNames[12], <<"2", "6">>, <<"2", "2">>),
       DayLabel(monthNames[12], <<"3", "0">>, <<"2", "2">>),
       DayLabel(monthNames[1], <<"2">>, <<"2", "3">>),
       DayLabel(monthNames[1], <<"9">>, <<"2", "3">>),
       DayLabel(monthNames[2], <<"1">>, <<"2", "3">>) >>

\* The samples on the periods numbered in S from k on, in ascending order,
\* the sample on period k having the value v[k].
RECURSIVE AscendingFrom(_, _, _)
AscendingFrom(S, v, k) ==
    IF k > Len(OverlayPeriods) THEN <<>>
    ELSE (IF k \in S THEN <<[period |-> OverlayPeriods[k], conversations |-> v[k]]>>
          ELSE <<>>) \o AscendingFrom(S, v, k + 1)

\* The first render: granularity "daily", the memos computed.
InitOverlay ==
    \* The event lists: no event, one event, or two, ids as page.tsx numbers
    \* them; trendlines on any set of periods in ascending order with positive
    \* values, and on a few sets in descending order with a value of 0 on the
    \* first period.
    LET EventTrendlineLists ==
            LET all == 1..Len(OverlayPeriods)
                Reverse(s) == [i \in 1..Len(s) |-> s[Len(s) + 1 - i]]
                ascending == {AscendingFrom(S, [k \in all |-> 10 + k], 1) : S \in SUBSET all}
                descending == {Reverse(AscendingFrom(S, [k \in all |-> k - 1], 1)) :
                                  S \in {{}, {1}, {2, 4}, all}}
            IN  {<<>>}
                    \cup {<<[id |-> "event-1", trendline |-> a]>> : a \in ascending}
                    \cup {<<[id |-> "event-1", trendline |-> a],
                            [id |-> "event-2", trendline |-> b]>> :
                             a \in ascending, b \in descending}
                    \cup {<<[id |-> "event-1", trendline |-> b],
                            [id |-> "event-2", trendline |-> a]>> :
                             a \in ascending, b \in descending}
    IN
    /\ label = NoLabel
    /\ trendline = <<>>
    /\ Idle
    /\ IdleSeed
    /\ IdleTimeline
    /\ IdleFixture
    /\ IdlePage
    /\ overallTrendline
           \in {[i \in 1..Len(s) |->
                    [date |-> s[i].period, conversations |-> s[i].conversations]] :
                   s \in {AscendingFrom(S, [k \in 1..Len(OverlayPeriods) |-> 100 * k], 1) :
                             S \in {{}, {1, 5}, 1..Len(OverlayPeriods)}}}
    /\ eventTrendlines \in EventTrendlineLists
    /\ granularity = "daily"
    /\ aggregatedOverallTrendline \in AggregateAt("daily", RawData(overallTrendline))
    /\ aggregatedEventTrendlines
           \in AggregateEvents("daily", eventTrendlines, Len(eventTrendlines))
    /\ combinedData \in CombinedDataMemo(aggregatedOverallTrendline,
                                         aggregatedEventTrendlines)

\* setGranularity(g) and the render that follows it: the three memos
\* recomputed.
SetGranularity(g) ==
    /\ g # granularity
    /\ granularity' = g
    /\ aggregatedOverallTrendline' \in AggregateAt(g, RawData(overallTrendline))
    /\ aggregatedEventTrendlines'
           \in AggregateEvents(g, eventTrendlines, Len(eventTrendlines))
    /\ combinedData' \in CombinedDataMemo(aggregatedOverallTrendline',
                                          aggregatedEventTrendlines')
    /\ UNCHANGED <<pageVars, overallTrendline, eventTrendlines, seedVars, timelineVars, fixtureVars, label, date,
                   weekStart, relabel, trendline, called, dailyData, pageMonthly,
                   ovWeekly, ovMonthly, again>>

SpecOverlay ==
    InitOverlay /\ [][\E g \in {"daily", "weekly", "monthly"} : SetGranularity(g)]_vars

-----------------------------------------------------------------------------
(* The Timeline: mounted with its props, then the sales toggle pressed any *)
(* number of times.                                                        *)

\* The first render: showSalesData true, the memos computed.
InitTimeline ==
    /\ label = NoLabel
    /\ trendline = <<>>
    /\ Idle
    /\ IdleSeed
    /\ IdleOverlay
    /\ IdleFixture
    /\ IdlePage
    /\ chartData \in {<<>>, <<0>>, <<1>>, <<1000>>, <<7, 2>>, <<250, 250>>,
                       <<3, 4999, 12>>, <<123457>>}
    /\ salesData \in {NoSalesData}
           \cup {[defined |-> TRUE, geographies |-> g] :
                    g \in {<<>>, <<<<0>>>>, <<<<0, 0>>, <<0>>>>, <<<<3>>>>, <<<<-100>>>>,
                           <<<<-180, 80>>>>, <<<<25, 130>>, <<>>>>,
                           <<<<-53>>, <<121, -7>>>>, <<<<-1485, 2203>>>>}}
    /\ isReachView \in BOOLEAN
    /\ showSalesData = TRUE
    /\ maxConversations = MaxConversationsMemo(chartData)
    /\ salesDomain = SalesDomainMemo(salesData)
    /\ conversationDomain = ConversationDomainMemo(salesData, showSalesData, isReachView,
                                                   salesDomain, maxConversations)

\* The toggle button, rendered when salesData && !isReachView:
\* setShowSalesData(!showSalesData) and the render that follows it.
ToggleShowSalesData ==
    /\ salesData.defined
    /\ ~isReachView
    /\ showSalesData' = ~showSalesData
    /\ conversationDomain' = ConversationDomainMemo(salesData, showSalesData', isReachView,
                                                    salesDomain, maxConversations)
    /\ UNCHANGED <<pageVars, chartData, salesData, isReachView, maxConversations, salesDomain,
                   seedVars, overlayVars, fixtureVars, label, date, weekStart, relabel,
                   trendline, called, dailyData, pageMonthly, ovWeekly, ovMonthly, again>>

SpecTimeline == InitTimeline /\ [][ToggleShowSalesData]_vars

-----------------------------------------------------------------------------
(* The page: loaded from the fixtures, the Timeline of the "timeline" view *)
(* rendered; then the view mode, the granularity and the selections        *)
(* changed any number of times.  A component that is not mounted has the   *)
(* state of its next mount; the Timeline's memos are then those of no      *)
(* chart.                                                                  *)

\* What the Timeline holds after a render in the view `view`: its props
\* (chartData or reachChartData, salesData in the "timeline" view alone,
\* indiaTrendlineData or indiaReachTrendlineData, isReachView) and its
\* memos, with showSalesData as `shown`.  The axis memos take chartData as
\* its conversations and salesData as the values of its geographies.  The
\* set of the one record of them.
TimelineRender(view, shown) ==
    LET reach == view = "reach"
    IN  UNION {UNION {
            {[chartData |-> values, salesData |-> axisSales, isReachView |-> reach,
              maxConversations |-> maxConv, salesDomain |-> domain,
              conversationDomain |-> ConversationDomainMemo(axisSales, shown, reach, domain, maxConv),
              combinedChartData |-> CombinedChartDataMemo(chart, india, sales, reach),
              eventMarkers |-> EventMarkersMemo(pageEvents, chart),
              geographyNames |-> IF sales = <<>> THEN {}
                                 ELSE {sales[1].geographies[g].name :
                                          g \in 1..Len(sales[1].geographies)}]
                : domain \in {SalesDomainMemo(axisSales)},
                  maxConv \in {MaxConversationsMemo(values)}}
            : values \in {[i \in 1..Len(chart) |-> chart[i].conversations]},
              axisSales \in
                  {IF sales = <<>> THEN NoSalesData
                   ELSE [defined |-> TRUE,
                         geographies |->
                             [g \in 1..Len(sales[1].geographies) |->
                                 [i \in 1..Len(sales[1].geographies[g].data) |->
                                     sales[1].geographies[g].data[i].value.v]]]}}
        : chart \in {[i \in 1..Len(monthlyTrendline) |->
                         [date |-> monthlyTrendline[i].period,
                          conversations |-> IF reach THEN monthlyTrendline[i].reach
                                            ELSE monthlyTrendline[i].conversations]]},
          india \in {IF indiaMonthly = <<>> THEN <<>>
                     ELSE <<[i \in 1..Len(indiaMonthly[1]) |->
                                [period |-> indiaMonthly[1][i].period,
                                 conversations |-> IF reach THEN indiaMonthly[1][i].reach
                                                   ELSE indiaMonthly[1][i].conversations]]>>},
          sales \in {IF reach THEN <<>> ELSE <<transformSalesData(dcSalesRaw)>>}}

\* dc-sales.json: no geography; one; two whose months are and are not
\* months of the trendline, one name with a space in it and a colour of
\* its own.
SalesFixtures ==
    << <<>>,
      <<[name |-> <<"I", "n", "d", "i", "a">>,
         months |-> <<[month |-> <<"D", "e", "c", " ", "2", "0", "2", "2">>, valueStr |-> <<"-", "1", ".", "8", "%">>],
                      [month |-> <<"F", "e", "b", " ", "2", "0", "2", "3">>, valueStr |-> <<"4", "%">>]>>]>>,
      <<[name |-> <<"U", "n", "i", "t", "e", "d", " ", "K", "i", "n", "g", "d", "o", "m">>,
         months |-> <<[month |-> <<"J", "a", "n", " ", "2", "0", "2", "3">>, valueStr |-> <<"1", "2", ".", "3", "%">>],
                      [month |-> <<"D", "e", "c", " ", "2", "0", "2", "2">>, valueStr |-> <<"0", ".", "5", "%">>],
                      [month |-> <<"J", "a", "n", " ", "2", "0", "0", "0">>, valueStr |-> <<"7", ".", "0", "%">>]>>],
        [name |-> <<"I", "n", "d", "i", "a">>,
         months |-> <<[month |-> <<"J", "a", "n", " ", "2", "0", "2", "3">>, valueStr |-> <<"-", "2", "0", "%">>]>>]>> >>

\* The page loaded from a trendline of the "overall" record and a sales
\* fixture, with or without a "Diet Coke India" record, on a device: the
\* module-level constants computed, the
\* Timeline of the "timeline" view rendered.  The events: one dated in a
\* month the trendline may have, one in a month it has not, one undated.
PageLoaded(trendlines, fixtures, indiaRecords, devices) ==
    /\ label = NoLabel
    /\ trendline \in trendlines
    /\ Idle
    /\ IdleSeed
    /\ IdleFixture
    /\ dcSalesRaw \in fixtures
    /\ pageEvents =
           << [id |-> <<"e", "v", "e", "n", "t", "-", "1">>, date |-> DayLabel(monthNames[12], <<"1">>, <<"2", "2">>),
               title |-> "Diet Coke India"],
              [id |-> <<"e", "v", "e", "n", "t", "-", "2">>, date |-> DayLabel(monthNames[2], <<"1">>, <<"2", "3">>),
               title |-> "Diet Coke Break"],
              [id |-> <<"e", "v", "e", "n", "t", "-", "3">>, date |-> <<>>, title |-> "Taylor Swift Endorsement"] >>
    /\ monthlyTrendline \in aggregateToMonthly(trendline)
    /\ indiaMonthly \in (IF FALSE \in indiaRecords THEN {<<>>} ELSE {})
           \cup {<<m>> : m \in IF TRUE \notin indiaRecords THEN {} ELSE aggregateToMonthly(
                                   <<[period |-> DayLabel(monthNames[12], <<"2", "6">>, <<"2", "2">>),
                                      conversations |-> 40, reach |-> 2]>>)}
    /\ viewMode = "timeline"
    /\ highlightedEvent = null
    /\ highlightTimers = <<>>
    /\ onEventClickCalls = <<>>
    /\ hoveredEvent = null
    /\ tooltipPosition = null
    /\ hideTimeoutRef = null
    /\ hideTimers = {}
    /\ lastTimeoutId = 0
    /\ mouseEvents = [last |-> "none", alternate |-> TRUE, cancelled |-> FALSE]
    /\ isTouch \in devices
    /\ isMobile \in devices
    /\ showSalesData = TRUE
    /\ \E render \in TimelineRender("timeline", TRUE) :
           /\ chartData = render.chartData
           /\ salesData = render.salesData
           /\ isReachView = render.isReachView
           /\ maxConversations = render.maxConversations
           /\ salesDomain = render.salesDomain
           /\ conversationDomain = render.conversationDomain
           /\ combinedChartData = render.combinedChartData
           /\ eventMarkers = render.eventMarkers
           /\ selectedGeographies = render.geographyNames
    /\ \E daily \in {weeklyToDaily(trendline)} :
           overallTrendline = [i \in 1..Len(daily) |->
                                  [date |-> daily[i].period,
                                   conversations |-> daily[i].conversations]]
    /\ eventTrendlines =
           << [id |-> "event-1", name |-> "Diet Coke India",
               trendline |-> <<[period |-> OverlayPeriods[1], conversations |-> 11],
                               [period |-> OverlayPeriods[3], conversations |-> 13]>>],
              [id |-> "event-2", name |-> "Diet Coke Break",
               trendline |-> <<[period |-> OverlayPeriods[4], conversations |-> 14]>>] >>
    /\ selectedEvents = {eventTrendlines[e].id :
                             e \in {k \in 1..Len(eventTrendlines) :
                                        eventTrendlines[k].name = "Diet Coke India"}}
    /\ showOverall = TRUE
    /\ granularity = "daily"
    /\ aggregatedOverallTrendline \in AggregateAt("daily", RawData(overallTrendline))
    /\ aggregatedEventTrendlines
           \in AggregateEvents("daily", eventTrendlines, Len(eventTrendlines))
    /\ combinedData \in CombinedDataMemo(aggregatedOverallTrendline,
                                         aggregatedEventTrendlines)

\* setViewMode(m) and the render that follows it.  "timeline" and "reach"
\* render the Timeline in one place of the tree, so its state lasts from
\* one to the other and its memos are computed anew from the other props;
\* to and from "overlay" one component is unmounted (its pending hide
\* timeouts then set the state of a component that is gone) and the other
\* mounted with the state useState gives it.
SetViewMode(m) ==
    /\ m # viewMode
    /\ viewMode' = m
    /\ IF m = "overlay"
       THEN /\ showSalesData' = TRUE
            /\ selectedGeographies' = {}
            /\ hoveredEvent' = null
            /\ tooltipPosition' = null
            /\ hideTimeoutRef' = null
            /\ hideTimers' = {}
            /\ mouseEvents' = [last |-> "none", alternate |-> TRUE, cancelled |-> FALSE]
            /\ chartData' = <<>>
            /\ salesData' = NoSalesData
            /\ isReachView' = FALSE
            /\ maxConversations' = DInfinity(TRUE)
            /\ salesDomain' = [min |-> -20, max |-> 15]
            /\ conversationDomain' = [min |-> DoubleOf(0), max |-> DInfinity(TRUE)]
            /\ combinedChartData' = <<>>
            /\ eventMarkers' = <<>>
            /\ UNCHANGED <<granularity, aggregatedOverallTrendline,
                           aggregatedEventTrendlines, combinedData, selectedEvents,
                           showOverall>>
       ELSE /\ \E render \in TimelineRender(m, showSalesData) :
                   /\ chartData' = render.chartData
                   /\ salesData' = render.salesData
                   /\ isReachView' = render.isReachView
                   /\ maxConversations' = render.maxConversations
                   /\ salesDomain' = render.salesDomain
                   /\ conversationDomain' = render.conversationDomain
                   /\ combinedChartData' = render.combinedChartData
                   /\ eventMarkers' = render.eventMarkers
                   /\ selectedGeographies' = IF viewMode = "overlay" THEN render.geographyNames
                                             ELSE selectedGeographies
            /\ UNCHANGED <<showSalesData, hoveredEvent, tooltipPosition, hideTimeoutRef,
                           hideTimers, mouseEvents>>
            /\ IF viewMode = "overlay"
               THEN /\ granularity' = "daily"
                    /\ aggregatedOverallTrendline'
                           \in AggregateAt("daily", RawData(overallTrendline))
                    /\ aggregatedEventTrendlines'
                           \in AggregateEvents("daily", eventTrendlines, Len(eventTrendlines))
                    /\ combinedData' \in CombinedDataMemo(aggregatedOverallTrendline',
                                                          aggregatedEventTrendlines')
                    /\ selectedEvents' = {eventTrendlines[e].id :
                                              e \in {k \in 1..Len(eventTrendlines) :
                                                         eventTrendlines[k].name = "Diet Coke India"}}
                    /\ showOverall' = TRUE
               ELSE UNCHANGED <<granularity, aggregatedOverallTrendline,
                                aggregatedEventTrendlines, combinedData, selectedEvents,
                                showOverall>>
    /\ UNCHANGED <<dcSalesRaw, pageEvents, monthlyTrendline, indiaMonthly, highlightedEvent,
                   highlightTimers, onEventClickCalls, lastTimeoutId, isTouch, isMobile,
                   overallTrendline, eventTrendlines, seedVars, fixtureVars, label, date,
                   weekStart, relabel, trendline, called, dailyData, pageMonthly,
                   ovWeekly, ovMonthly, again>>

\* A selected event toggled off and every other with it.
ToggleEventClearing(eventId) ==
    /\ viewMode = "overlay"
    /\ \E e \in 1..Len(eventTrendlines) : eventTrendlines[e].id = eventId
    /\ selectedEvents' = IF eventId \in selectedEvents THEN {}
                         ELSE selectedEvents \cup {eventId}
    /\ UNCHANGED <<dcSalesRaw, pageEvents, monthlyTrendline, indiaMonthly, combinedChartData,
                   eventMarkers, viewMode, highlightedEvent, highlightTimers,
                   onEventClickCalls, hoveredEvent, tooltipPosition, hideTimeoutRef,
                   hideTimers, lastTimeoutId, mouseEvents, isTouch, isMobile,
                   seedVars, overlayVars, timelineVars, fixtureVars, label, date,
                   weekStart, relabel, trendline, called, dailyData, pageMonthly,
                   ovWeekly, ovMonthly, again, showOverall, selectedGeographies>>

\* toggleEvent(eventId), of a button of the overlay.
ToggleEvent(eventId) ==
    /\ viewMode = "overlay"
    /\ \E e \in 1..Len(eventTrendlines) : eventTrendlines[e].id = eventId
    /\ selectedEvents' = IF eventId \in selectedEvents THEN selectedEvents \ {eventId}
                         ELSE selectedEvents \cup {eventId}
    /\ UNCHANGED <<dcSalesRaw, pageEvents, monthlyTrendline, indiaMonthly, combinedChartData,
                   eventMarkers, viewMode, highlightedEvent, highlightTimers,
                   onEventClickCalls, hoveredEvent, tooltipPosition, hideTimeoutRef,
                   hideTimers, lastTimeoutId, mouseEvents, isTouch, isMobile,
                   seedVars, overlayVars, timelineVars, fixtureVars, label, date,
                   weekStart, relabel, trendline, called, dailyData, pageMonthly,
                   ovWeekly, ovMonthly, again, showOverall, selectedGeographies>>

\* selectAll
SelectAll ==
    /\ viewMode = "overlay"
    /\ selectedEvents' = {eventTrendlines[e].id : e \in 1..Len(eventTrendlines)}
    /\ UNCHANGED <<dcSalesRaw, pageEvents, monthlyTrendline, indiaMonthly, combinedChartData,
                   eventMarkers, viewMode, highlightedEvent, highlightTimers,
                   onEventClickCalls, hoveredEvent, tooltipPosition, hideTimeoutRef,
                   hideTimers, lastTimeoutId, mouseEvents, isTouch, isMobile,
                   seedVars, overlayVars, timelineVars, fixtureVars, label, date,
                   weekStart, relabel, trendline, called, dailyData, pageMonthly,
                   ovWeekly, ovMonthly, again, showOverall, selectedGeographies>>

\* deselectAll
DeselectAll ==
    /\ viewMode = "overlay"
    /\ selectedEvents' = {}
    /\ UNCHANGED <<dcSalesRaw, pageEvents, monthlyTrendline, indiaMonthly, combinedChartData,
                   eventMarkers, viewMode, highlightedEvent, highlightTimers,
                   onEventClickCalls, hoveredEvent, tooltipPosition, hideTimeoutRef,
                   hideTimers, lastTimeoutId, mouseEvents, isTouch, isMobile,
                   seedVars, overlayVars, timelineVars, fixtureVars, label, date,
                   weekStart, relabel, trendline, called, dailyData, pageMonthly,
                   ovWeekly, ovMonthly, again, showOverall, selectedGeographies>>

\* The checkbox of the overall series: setShowOverall(e.target.checked).
SetShowOverall ==
    /\ viewMode = "overlay"
    /\ showOverall' = ~showOverall
    /\ UNCHANGED <<dcSalesRaw, pageEvents, monthlyTrendline, indiaMonthly, combinedChartData,
                   eventMarkers, viewMode, highlightedEvent, highlightTimers,
                   onEventClickCalls, hoveredEvent, tooltipPosition, hideTimeoutRef,
                   hideTimers, lastTimeoutId, mouseEvents, isTouch, isMobile,
                   seedVars, overlayVars, timelineVars, fixtureVars, label, date,
                   weekStart, relabel, trendline, called, dailyData, pageMonthly,
                   ovWeekly, ovMonthly, again, selectedEvents, selectedGeographies>>

\* toggleGeography(name), of a button rendered per geography when
\* salesData && !isReachView and showSalesData.
ToggleGeography(name) ==
    /\ viewMode # "overlay"
    /\ salesData.defined
    /\ ~isReachView
    /\ showSalesData
    /\ \E g \in 1..Len(transformSalesData(dcSalesRaw).geographies) :
           transformSalesData(dcSalesRaw).geographies[g].name = name
    /\ selectedGeographies' = IF name \in selectedGeographies
                              THEN selectedGeographies \ {name}
                              ELSE selectedGeographies \cup {name}
    /\ UNCHANGED <<dcSalesRaw, pageEvents, monthlyTrendline, indiaMonthly, combinedChartData,
                   eventMarkers, viewMode, highlightedEvent, highlightTimers,
                   onEventClickCalls, hoveredEvent, tooltipPosition, hideTimeoutRef,
                   hideTimers, lastTimeoutId, mouseEvents, isTouch, isMobile,
                   seedVars, overlayVars, timelineVars, fixtureVars, label, date,
                   weekStart, relabel, trendline, called, dailyData, pageMonthly,
                   ovWeekly, ovMonthly, again, selectedEvents, showOverall>>

-----------------------------------------------------------------------------
(* The markers of the Timeline: hover, click and touch, and the timeouts   *)
(* they schedule.  A timeout runs once, some time after it was scheduled   *)
(* unless it was cleared; timeouts of one delay run in the order they were *)
(* scheduled.                                                              *)

\* The most calls of onEventClick and of handleMouseLeave followed.
MaxClicks == 2
MaxLeaves == 2

\* The event hovered with the pending hide timeout left to run.
HandleMouseEnterNoClear(eventId, position) ==
    /\ viewMode # "overlay"
    /\ ~isMobile
    /\ \E e \in 1..Len(eventMarkers) : eventMarkers[e].id = eventId
    /\ hoveredEvent' = <<eventId>>
    /\ tooltipPosition' = <<position>>
    /\ mouseEvents' = [last |-> "enter",
                       alternate |-> mouseEvents.alternate /\ mouseEvents.last # "enter",
                       cancelled |-> hideTimeoutRef # null /\ hideTimeoutRef[1] \in hideTimers]
    /\ UNCHANGED <<dcSalesRaw, pageEvents, monthlyTrendline, indiaMonthly,
                  combinedChartData, eventMarkers, viewMode,
                  highlightedEvent, highlightTimers, onEventClickCalls,
                  hideTimeoutRef, hideTimers, lastTimeoutId, isTouch,
                  isMobile, selectedEvents, showOverall,
                  selectedGeographies, seedVars, overlayVars, timelineVars,
                  fixtureVars, label, date, weekStart, relabel, trendline,
                  called, dailyData, pageMonthly, ovWeekly, ovMonthly, again>>

\* handleMouseEnter(eventId, e), attached to a marker when !isMobile: a
\* pending hide timeout cleared, the event hovered, the tooltip placed at
\* the marker's rectangle.
HandleMouseEnter(eventId, position) ==
    /\ viewMode # "overlay"
    /\ ~isMobile
    /\ \E e \in 1..Len(eventMarkers) : eventMarkers[e].id = eventId
    /\ IF hideTimeoutRef # null
       THEN hideTimers' = hideTimers \ {hideTimeoutRef[1]} /\ hideTimeoutRef' = null
       ELSE UNCHANGED <<hideTimers, hideTimeoutRef>>
    /\ hoveredEvent' = <<eventId>>
    /\ tooltipPosition' = <<position>>
    /\ mouseEvents' = [last |-> "enter",
                       alternate |-> mouseEvents.alternate /\ mouseEvents.last # "enter",
                       cancelled |-> hideTimeoutRef # null /\ hideTimeoutRef[1] \in hideTimers]
    /\ UNCHANGED <<dcSalesRaw, pageEvents, monthlyTrendline, indiaMonthly,
                  combinedChartData, eventMarkers, viewMode,
                  highlightedEvent, highlightTimers, onEventClickCalls,
                  lastTimeoutId, isTouch, isMobile, selectedEvents,
                  showOverall, selectedGeographies, seedVars, overlayVars,
                  timelineVars, fixtureVars, label, date, weekStart,
                  relabel, trendline, called, dailyData, pageMonthly,
                  ovWeekly, ovMonthly, again>>

\* handleMouseLeave, attached to a marker when !isMobile: a hide timeout
\* of 150 ms scheduled and kept in the ref.
HandleMouseLeave ==
    /\ viewMode # "overlay"
    /\ ~isMobile
    /\ eventMarkers # <<>>
    /\ lastTimeoutId < MaxLeaves
    /\ lastTimeoutId' = lastTimeoutId + 1
    /\ hideTimers' = hideTimers \cup {lastTimeoutId'}
    /\ hideTimeoutRef' = <<lastTimeoutId'>>
    /\ mouseEvents' = [last |-> "leave",
                       alternate |-> mouseEvents.alternate /\ mouseEvents.last # "leave",
                       cancelled |-> FALSE]
    /\ UNCHANGED <<dcSalesRaw, pageEvents, monthlyTrendline, indiaMonthly,
                  combinedChartData, eventMarkers, viewMode,
                  highlightedEvent, highlightTimers, onEventClickCalls,
                  hoveredEvent, tooltipPosition, isTouch, isMobile,
                  selectedEvents, showOverall, selectedGeographies,
                  seedVars, overlayVars, timelineVars, fixtureVars, label,
                  date, weekStart, relabel, trendline, called, dailyData,
                  pageMonthly, ovWeekly, ovMonthly, again>>

\* A hide timeout that clears the hovered event alone.
HideTimeoutHoverOnly(id) ==
    /\ id \in hideTimers
    /\ hideTimers' = hideTimers \ {id}
    /\ hoveredEvent' = null
    /\ UNCHANGED <<dcSalesRaw, pageEvents, monthlyTrendline, indiaMonthly,
                  combinedChartData, eventMarkers, viewMode,
                  highlightedEvent, highlightTimers, onEventClickCalls,
                  tooltipPosition, hideTimeoutRef, lastTimeoutId,
                  mouseEvents, isTouch, isMobile, selectedEvents,
                  showOverall, selectedGeographies, seedVars, overlayVars,
                  timelineVars, fixtureVars, label, date, weekStart,
                  relabel, trendline, called, dailyData, pageMonthly,
                  ovWeekly, ovMonthly, again>>

\* The callback of a hide timeout, 150 ms after the leave that scheduled
\* it: setHoveredEvent(null); setTooltipPosition(null).
HideTimeout(id) ==
    /\ id \in hideTimers
    /\ hideTimers' = hideTimers \ {id}
    /\ hoveredEvent' = null
    /\ tooltipPosition' = null
    /\ UNCHANGED <<dcSalesRaw, pageEvents, monthlyTrendline, indiaMonthly,
                  combinedChartData, eventMarkers, viewMode,
                  highlightedEvent, highlightTimers, onEventClickCalls,
                  hideTimeoutRef, lastTimeoutId, mouseEvents, isTouch,
                  isMobile, selectedEvents, showOverall,
                  selectedGeographies, seedVars, overlayVars, timelineVars,
                  fixtureVars, label, date, weekStart, relabel, trendline,
                  called, dailyData, pageMonthly, ovWeekly, ovMonthly, again>>

\* handleChartClick, the onClick of the chart's container.
HandleChartClick ==
    /\ viewMode # "overlay"
    /\ IF isTouch /\ hoveredEvent # null
       THEN hoveredEvent' = null /\ tooltipPosition' = null
       ELSE UNCHANGED <<hoveredEvent, tooltipPosition>>
    /\ UNCHANGED <<dcSalesRaw, pageEvents, monthlyTrendline, indiaMonthly,
                  combinedChartData, eventMarkers, viewMode,
                  highlightedEvent, highlightTimers, onEventClickCalls,
                  hideTimeoutRef, hideTimers, lastTimeoutId, mouseEvents,
                  isTouch, isMobile, selectedEvents, showOverall,
                  selectedGeographies, seedVars, overlayVars, timelineVars,
                  fixtureVars, label, date, weekStart, relabel, trendline,
                  called, dailyData, pageMonthly, ovWeekly, ovMonthly, again>>

\* A click that calls onEventClick on every device.
HandleEventClickOnTouch(eventId) ==
    /\ viewMode # "overlay"
    /\ \E e \in 1..Len(eventMarkers) : eventMarkers[e].id = eventId
    /\ Len(onEventClickCalls) < MaxClicks
    /\ onEventClickCalls' = Append(onEventClickCalls, eventId)
    /\ highlightedEvent' = <<eventId>>
    /\ highlightTimers' = Append(highlightTimers, eventId)
    /\ UNCHANGED <<dcSalesRaw, pageEvents, monthlyTrendline, indiaMonthly,
                  combinedChartData, eventMarkers, viewMode, hoveredEvent,
                  tooltipPosition, hideTimeoutRef, hideTimers,
                  lastTimeoutId, mouseEvents, isTouch, isMobile,
                  selectedEvents, showOverall, selectedGeographies,
                  seedVars, overlayVars, timelineVars, fixtureVars, label,
                  date, weekStart, relabel, trendline, called, dailyData,
                  pageMonthly, ovWeekly, ovMonthly, again>>

\* A click on a marker: the Timeline's handleEventClick(eventId), which on
\* a touch device returns and otherwise calls onEventClick, page.tsx's
\* handleEventClick (setHighlightedEvent(eventId) and a timeout of 2000 ms
\* scheduled); the click then bubbles to the chart's container, whose
\* handleChartClick closes the tooltip on a touch device.
HandleEventClick(eventId) ==
    /\ viewMode # "overlay"
    /\ \E e \in 1..Len(eventMarkers) : eventMarkers[e].id = eventId
    /\ IF isTouch
       THEN /\ UNCHANGED <<onEventClickCalls, highlightedEvent, highlightTimers>>
            /\ IF hoveredEvent # null
               THEN hoveredEvent' = null /\ tooltipPosition' = null
               ELSE UNCHANGED <<hoveredEvent, tooltipPosition>>
       ELSE /\ Len(onEventClickCalls) < MaxClicks
            /\ onEventClickCalls' = Append(onEventClickCalls, eventId)
            /\ highlightedEvent' = <<eventId>>
            /\ highlightTimers' = Append(highlightTimers, eventId)
            /\ UNCHANGED <<hoveredEvent, tooltipPosition>>
    /\ UNCHANGED <<dcSalesRaw, pageEvents, monthlyTrendline, indiaMonthly,
                  combinedChartData, eventMarkers, viewMode, hideTimeoutRef,
                  hideTimers, lastTimeoutId, mouseEvents, isTouch, isMobile,
                  selectedEvents, showOverall, selectedGeographies,
                  seedVars, overlayVars, timelineVars, fixtureVars, label,
                  date, weekStart, relabel, trendline, called, dailyData,
                  pageMonthly, ovWeekly, ovMonthly, again>>

\* handleTouchStart(eventId, e), of a touch on a marker:
\* e.preventDefault(); onEventClick(eventId).
HandleTouchStart(eventId) ==
    /\ viewMode # "overlay"
    /\ isTouch
    /\ \E e \in 1..Len(eventMarkers) : eventMarkers[e].id = eventId
    /\ Len(onEventClickCalls) < MaxClicks
    /\ onEventClickCalls' = Append(onEventClickCalls, eventId)
    /\ highlightedEvent' = <<eventId>>
    /\ highlightTimers' = Append(highlightTimers, eventId)
    /\ UNCHANGED <<dcSalesRaw, pageEvents, monthlyTrendline, indiaMonthly,
                  combinedChartData, eventMarkers, viewMode, hoveredEvent,
                  tooltipPosition, hideTimeoutRef, hideTimers,
                  lastTimeoutId, mouseEvents, isTouch, isMobile,
                  selectedEvents, showOverall, selectedGeographies,
                  seedVars, overlayVars, timelineVars, fixtureVars, label,
                  date, weekStart, relabel, trendline, called, dailyData,
                  pageMonthly, ovWeekly, ovMonthly, again>>

\* A timeout that runs and leaves the highlight.
HighlightTimeoutKeeps ==
    /\ highlightTimers # <<>>
    /\ highlightTimers' = Tail(highlightTimers)
    /\ UNCHANGED <<dcSalesRaw, pageEvents, monthlyTrendline, indiaMonthly,
                  combinedChartData, eventMarkers, viewMode,
                  highlightedEvent, onEventClickCalls, hoveredEvent,
                  tooltipPosition, hideTimeoutRef, hideTimers,
                  lastTimeoutId, mouseEvents, isTouch, isMobile,
                  selectedEvents, showOverall, selectedGeographies,
                  seedVars, overlayVars, timelineVars, fixtureVars, label,
                  date, weekStart, relabel, trendline, called, dailyData,
                  pageMonthly, ovWeekly, ovMonthly, again>>

\* The callback of the oldest pending timeout of page.tsx's
\* handleEventClick: setHighlightedEvent(null).
HighlightTimeout ==
    /\ highlightTimers # <<>>
    /\ highlightTimers' = Tail(highlightTimers)
    /\ highlightedEvent' = null
    /\ UNCHANGED <<dcSalesRaw, pageEvents, monthlyTrendline, indiaMonthly,
                  combinedChartData, eventMarkers, viewMode,
                  onEventClickCalls, hoveredEvent, tooltipPosition,
                  hideTimeoutRef, hideTimers, lastTimeoutId, mouseEvents,
                  isTouch, isMobile, selectedEvents, showOverall,
                  selectedGeographies, seedVars, overlayVars, timelineVars,
                  fixtureVars, label, date, weekStart, relabel, trendline,
                  called, dailyData, pageMonthly, ovWeekly, ovMonthly, again>>

\* The floating tooltip: !isTouch && hoveredEventData && tooltipPosition,
\* hoveredEventData being events.find((e) => e.id === hoveredEvent).
TooltipRendered ==
    /\ viewMode # "overlay"
    /\ ~isTouch
    /\ hoveredEvent # null
    /\ \E e \in 1..Len(pageEvents) : pageEvents[e].id = hoveredEvent[1]
    /\ tooltipPosition # null

\* The page with its view mode changed and the functions of the pipeline
\* applied to its trendline.  The trendlines: of a week of December 2022,
\* a week of January 2023 and a label of two tokens; no sales and the
\* fixture of two geographies; a desktop.
SpecPage ==
    PageLoaded(UNION {[1..n -> {s \in Samples : \/ s.conversations \in {700, 1}
                                                 \/ s.period = MonthOnlyLabel(monthNames[12], <<"2", "2">>)}]
                         : n \in 0..MaxLen},
               {SalesFixtures[1], SalesFixtures[3]}, BOOLEAN, {FALSE})
        /\ [][\/ WeeklyToDaily
              \/ AggregateToMonthly
              \/ OverlayAggregateToWeekly
              \/ OverlayAggregateToMonthly
              \/ \E m \in {"timeline", "overlay", "reach"} : SetViewMode(m)]_vars

\* The controls of the page and the pointer over the markers: one week
\* of December 2022, the fixture of two geographies and an India record,
\* on a desktop.
SpecControls ==
    PageLoaded({<<CHOOSE s \in Samples : s.conversations = 700>>},
               {SalesFixtures[3]}, {TRUE}, {FALSE})
        /\ [][\/ WeeklyToDaily
              \/ AggregateToMonthly
              \/ OverlayAggregateToWeekly
              \/ OverlayAggregateToMonthly
              \/ \E m \in {"timeline", "overlay", "reach"} : SetViewMode(m)
              \/ (viewMode = "overlay"
                     /\ \E g \in {"daily", "weekly", "monthly"} : SetGranularity(g))
              \/ ToggleShowSalesData
              \/ \E eventId \in {"event-1", "event-2"} : ToggleEvent(eventId)
              \/ SelectAll
              \/ DeselectAll
              \/ SetShowOverall
              \/ \E name \in {<<"I", "n", "d", "i", "a">>, <<"U", "n", "i", "t", "e", "d", " ", "K", "i", "n", "g", "d", "o", "m">>} : ToggleGeography(name)
              \/ \E eventId \in {<<"e", "v", "e", "n", "t", "-", "1">>, <<"e", "v", "e", "n", "t", "-", "2">>} :
                     HandleMouseEnter(eventId, [x |-> 120, y |-> 80])
              \/ HandleMouseLeave
              \/ \E id \in 1..MaxLeaves : HideTimeout(id)
              \/ HandleChartClick]_vars

\* The markers hovered, clicked and touched, on the page of SpecControls
\* on every kind of device; every timeout that is due runs.
SpecMarkers ==
    PageLoaded({<<CHOOSE s \in Samples : s.conversations = 700>>},
               {SalesFixtures[3]}, {TRUE}, BOOLEAN)
        /\ [][\/ \E eventId \in {<<"e", "v", "e", "n", "t", "-", "1">>, <<"e", "v", "e", "n", "t", "-", "2">>}, position \in {[x |-> 120, y |-> 80], [x |-> 400, y |-> 35]} :
                     HandleMouseEnter(eventId, position)
              \/ HandleMouseLeave
              \/ \E id \in 1..MaxLeaves : HideTimeout(id)
              \/ HandleChartClick
              \/ \E eventId \in {<<"e", "v", "e", "n", "t", "-", "1">>, <<"e", "v", "e", "n", "t", "-", "2">>} : HandleEventClick(eventId)
              \/ \E eventId \in {<<"e", "v", "e", "n", "t", "-", "1">>, <<"e", "v", "e", "n", "t", "-", "2">>} : HandleTouchStart(eventId)
              \/ HighlightTimeout]_vars
        /\ WF_vars(HighlightTimeout)
        /\ \A id \in 1..MaxLeaves : WF_vars(HideTimeout(id))

-----------------------------------------------------------------------------
(* The fixture transform: one record of rawData, its entries made and its  *)
(* trendline handed to weeklyToDaily or aggregateToMonthly.                *)

\* The records: an event name with an image, with an empty image or with
\* none; a description missing, empty or given; date, total_reach and
\* indian_participation missing, given as 0 or given as positive numbers.
\* The trendline: empty, or one of the two largest samples, the one with
\* reach and the other without.
InitFixture ==
    /\ label = NoLabel
    /\ Idle
    /\ IdleSeed
    /\ IdleOverlay
    /\ IdleTimeline
    /\ IdlePage
    /\ trendline \in {<<>>} \cup {<<s>> : s \in {x \in Samples : x.conversations >= 10}}
    /\ rawItem \in
           {named @@ description @@ rest :
               named \in {[event_name |-> "WHO Aspartame Cancer Ruling",
                           total_conv_vol |-> 1234567],
                          [event_name |-> "Diet Coke India", total_conv_vol |-> 999],
                          [event_name |-> "Diet Coke at 40", total_conv_vol |-> 52000]},
               description \in {<<>>, [description |-> <<>>],
                                [description |-> <<"A", " ", "b", ".">>]},
               rest \in {<<>>,
                         [date |-> [y |-> 2023, m |-> 1, d |-> 1], total_reach |-> 0,
                          indian_participation |-> 0],
                         [date |-> [y |-> 2023, m |-> 7, d |-> 17], total_reach |-> 52000,
                          indian_participation |-> 12]}}
    /\ itemIndex \in {0, 11}
    /\ runtime \in [locale : {"en-US", "en-IN", "de-DE"}, west : BOOLEAN]
    /\ timelineEvent = <<>>
    /\ reachEvent = <<>>

\* rawData.slice(1).map(...) of events, for this record.
Events ==
    /\ timelineEvent = <<>>
    /\ timelineEvent' = <<EventsEntry(rawItem, itemIndex, runtime)>>
    /\ UNCHANGED <<pageVars, rawItem, itemIndex, runtime, reachEvent, seedVars, overlayVars,
                   timelineVars, label, date, weekStart, relabel, trendline, called,
                   dailyData, pageMonthly, ovWeekly, ovMonthly, again>>

\* rawData.slice(1).map(...) of reachEventTrendlines, for this record.
ReachEventTrendlines ==
    /\ reachEvent = <<>>
    /\ reachEvent' =
           <<[id |-> <<"e", "v", "e", "n", "t", "-">> \o NumToString(Num(itemIndex + 1)),
              name |-> rawItem.event_name,
              trendline |-> [i \in 1..Len(trendline) |->
                                [period |-> trendline[i].period,
                                 conversations |-> ReachOrZero(trendline[i])]],
              color |-> <<"#8B5CF6", "#06B6D4", "#10B981", "#F59E0B", "#EC4899",
                          "#6366F1", "#14B8A6", "#F97316", "#84CC16", "#EF4444",
                          "#3B82F6", "#A855F7">>[(itemIndex % 12) + 1],
              totalVolume |-> IF "total_reach" \in DOMAIN rawItem
                              THEN rawItem.total_reach ELSE 0]>>
    /\ UNCHANGED <<pageVars, rawItem, itemIndex, runtime, timelineEvent, seedVars, overlayVars,
                   timelineVars, label, date, weekStart, relabel, trendline, called,
                   dailyData, pageMonthly, ovWeekly, ovMonthly, again>>

SpecFixture ==
    InitFixture
        /\ [][Events \/ ReachEventTrendlines \/ WeeklyToDaily \/ AggregateToMonthly]_vars

-----------------------------------------------------------------------------
(* Properties *)

RECURSIVE SumConversations(_)
SumConversations(s) ==
    IF s = <<>> THEN 0 ELSE Head(s).conversations + SumConversations(Tail(s))

RECURSIVE SumReach(_)
SumReach(s) ==
    IF s = <<>> THEN 0 ELSE ReachOrZero(Head(s)) + SumReach(Tail(s))

RECURSIVE Select(_, _)
Select(s, keep) ==
    IF s = <<>> THEN <<>>
    ELSE (IF keep[Head(s)] THEN <<Head(s)>> ELSE <<>>) \o Select(Tail(s), keep)

\* The entries of dailyData that come from sample i (0-based).
DaysOfSample(i) ==
    SubSeq(dailyData, Len(DailyUpTo(trendline, i)) + 1, Len(DailyUpTo(trendline, i + 1)))

\* C1: in weeklyToDaily, the 7 daily conversations of every weekly sample
\* whose 7 days are all emitted sum exactly to the sample's weekly total,
\* for every non-negative total.
C1_SevenDaysSumToWeeklyTotal ==
    called = <<"weeklyToDaily">> =>
        \A i \in 0..(Len(trendline) - 1) :
            Len(DaysOfSample(i)) = 7 =>
                SumConversations(DaysOfSample(i)) = trendline[i + 1].conversations

HasThreeTokens == [s \in Samples |-> Len(Split(s.period)) = 3]

\* C3 as claimed: the conversations of page.tsx's monthly series sum to the
\* conversations of all input samples, whatever their labels, and likewise
\* the reach with a missing reach counted as 0.
C3_ConservesEverySample ==
    called = <<"aggregateToMonthly">> =>
        /\ SumConversations(pageMonthly) = SumConversations(trendline)
        /\ SumReach(pageMonthly) = SumReach(trendline)

\* C3 as amended: the conversations of page.tsx's monthly series sum to the
\* conversations of the input samples whose label has exactly three
\* space-separated tokens (the others are passed over), and likewise the
\* reach with a missing reach counted as 0.
C3_ConservesThreeTokenSamples ==
    called = <<"aggregateToMonthly">> =>
        /\ SumConversations(pageMonthly)
               = SumConversations(Select(trendline, HasThreeTokens))
        /\ SumReach(pageMonthly) = SumReach(Select(trendline, HasThreeTokens))

\* Two different samples of one month, one of them without reach, merged
\* into one bucket.
C3_Witness ==
    /\ called = <<"aggregateToMonthly">>
    /\ Len(trendline) = 2
    /\ trendline[1] # trendline[2]
    /\ "reach" \notin DOMAIN trendline[2]
    /\ Len(pageMonthly) = 1
    /\ pageMonthly[1].conversations = 710
    /\ pageMonthly[1].reach = 9

\* The function applied first in this behaviour.
Ran(f) == called # <<>> /\ called[1] = f

\* C4: parsePeriodToDate returns the calendar date the label denotes: day D
\* of month Mon for "Mon D, YY", day 1 of month Mon for "Mon YY", in year
\* 2000 + YY when YY < 50 and 1900 + YY otherwise; weeklyToDaily derives
\* the same date from a 3-token label.
C4_ParsedDateIsDenotedDate ==
    (Ran("parsePeriodToDate") \/ Ran("weeklyToDaily.startDate")) =>
        /\ date.valid
        /\ CivilFromDays(date.t)
               = [y |-> DenotedYear(label.yy), m |-> label.m, d |-> label.d]

\* A monthly label of the year 99 parsed to the first day of its month in
\* 1999.
C4_Witness ==
    /\ called = <<"parsePeriodToDate">>
    /\ label.kind = "monthly"
    /\ label.yy = 99
    /\ date.valid
    /\ CivilFromDays(date.t).y = 1999
    /\ CivilFromDays(date.t).d = 1

\* C5 as claimed: for every well-formed label, daily "Mon D, YY" and
\* monthly "Mon YY", parsing it and formatting the date with the code's
\* formatter of that granularity gives the label back.
C5_RoundTripBothFormats ==
    /\ (called = <<"parsePeriodToDate", "formatDay">> /\ label.kind = "daily")
           => relabel = label.text
    /\ (called = <<"parsePeriodToDate", "formatMonth">> /\ label.kind = "monthly")
           => relabel = label.text

\* C5 as amended: for every well-formed daily label "Mon D, YY", parsing it
\* and formatting the date with the daily formatter gives the label back;
\* for a monthly label "Mon YY" the monthly formatter gives "Mon 1, YY",
\* which parses to the same date.
C5_RoundTripDailyOnly ==
    /\ (called = <<"parsePeriodToDate", "formatDay">> /\ label.kind = "daily")
           => relabel = label.text
    /\ (called = <<"parsePeriodToDate", "formatMonth">> /\ label.kind = "monthly")
           => /\ relabel = DayLabel(monthNames[label.m], <<"1">>, TwoDigits(label.yy))
              /\ parsePeriodToDate(relabel) = date

\* The last day of a month of the year 00 parsed and formatted back.
C5_Witness ==
    /\ called = <<"parsePeriodToDate", "formatDay">>
    /\ label.kind = "daily"
    /\ label.d = 31
    /\ label.yy = 0
    /\ relabel = label.text

AllDigits(s) == s # <<>> /\ \A i \in 1..Len(s) : IsDigit(s[i])

\* "Mon D, YY": three tokens, a month name, digits and a comma, digits.
WellFormed(period) ==
    LET parts == Split(period)
    IN  /\ Len(parts) = 3
        /\ MonthIndexOf(parts[1]) >= 0
        /\ Len(parts[2]) >= 2
        /\ parts[2][Len(parts[2])] = ","
        /\ AllDigits(SubSeq(parts[2], 1, Len(parts[2]) - 1))
        /\ AllDigits(parts[3])

IsWellFormed == [s \in Samples |-> WellFormed(s.period)]

\* C6: a sample with a malformed label (wrong token count, unknown month
\* name, non-numeric day or year) is skipped by weeklyToDaily and by the
\* aggregators: the result is the one the series gives without it.
C6_MalformedSamplesSkipped ==
    /\ Ran("weeklyToDaily")
           => dailyData = weeklyToDaily(Select(trendline, IsWellFormed))
    /\ Ran("aggregateToMonthly")
           => pageMonthly \in aggregateToMonthly(Select(trendline, IsWellFormed))
    /\ Ran("overlay.aggregateToWeekly")
           => ovWeekly \in aggregateToWeekly(Select(trendline, IsWellFormed))
    /\ Ran("overlay.aggregateToMonthly")
           => ovMonthly \in overlayAggregateToMonthly(Select(trendline, IsWellFormed))

\* The dates the labels of s denote under the parser's year rule ascend
\* strictly.
StrictlyAscending(s) ==
    \A i \in 1..(Len(s) - 1) :
        LET a == parsePeriodToDate(s[i].period)
            b == parsePeriodToDate(s[i + 1].period)
        IN  a.valid /\ b.valid /\ a.t < b.t

AllWellFormed(tl) == \A i \in 1..Len(tl) : IsWellFormed[tl[i]]

\* Ascending order in the overlay's two aggregators alone.
OverlayOrderAscending ==
    AllWellFormed(trendline) =>
        /\ Ran("overlay.aggregateToWeekly") => StrictlyAscending(ovWeekly)
        /\ Ran("overlay.aggregateToMonthly") => StrictlyAscending(ovMonthly)

\* C7: every aggregator returns its buckets in strictly ascending calendar
\* order of the dates their labels denote under the parser's year rule,
\* for any input order and any mix of years of well-formed labels.
C7_BucketsAscendByDenotedDate ==
    AllWellFormed(trendline) =>
        /\ Ran("aggregateToMonthly") => StrictlyAscending(pageMonthly)
        /\ Ran("overlay.aggregateToWeekly") => StrictlyAscending(ovWeekly)
        /\ Ran("overlay.aggregateToMonthly") => StrictlyAscending(ovMonthly)

WeekKeyOf == [s \in Samples |-> WeekKey(s.period)]

MonthKeyOf == [s \in Samples |-> MonthKey(s.period)]

\* Each bucket key once, every sample's key among them, and each bucket
\* the sum of the conversations of the samples with its key.
BucketsAreSums(out, keyOf) ==
    /\ \A i, j \in 1..Len(out) : i # j => out[i].period # out[j].period
    /\ \A i \in 1..Len(trendline) :
           \E j \in 1..Len(out) : out[j].period = keyOf[trendline[i]]
    /\ \A j \in 1..Len(out) :
           out[j].conversations
               = SumConversations(Select(trendline,
                                         [s \in Samples |-> keyOf[s] = out[j].period]))

\* C8: in the overlay's aggregateToWeekly and aggregateToMonthly each bucket
\* holds the sum of the conversations of all input samples of that bucket
\* (a later sample with the same key is added, never replaces), and each
\* key appears exactly once.
C8_BucketsSumSamples ==
    /\ Ran("overlay.aggregateToWeekly") => BucketsAreSums(ovWeekly, WeekKeyOf)
    /\ Ran("overlay.aggregateToMonthly") => BucketsAreSums(ovMonthly, MonthKeyOf)

\* Two different samples of one week summed into one weekly bucket.
C8_Witness ==
    /\ called = <<"overlay.aggregateToWeekly">>
    /\ Len(trendline) = 2
    /\ trendline[1] # trendline[2]
    /\ Len(ovWeekly) = 1
    /\ ovWeekly[1].conversations
           = trendline[1].conversations + trendline[2].conversations
    /\ trendline[1].conversations > 0
    /\ trendline[2].conversations > 0

AllLabels == DailyLabels \cup MonthlyLabels

ParsedOf == [l \in AllLabels |-> parsePeriodToDate(l.text)]

WeekKeyOfLabel == [l \in AllLabels |-> WeekKey(l.text)]

\* The number of the Monday-to-Sunday week of day t: day 4, 5 Jan 1970, was
\* a Monday.
WeekOf(t) == (t + 3) \div 7

\* C9: getWeekStart maps every date to the Monday on or before it, also
\* when that Monday lies in the previous month or year; two dates get the
\* same weekly bucket key exactly when they lie in the same
\* Monday-to-Sunday week.
C9_WeekStartIsMondayOnOrBefore ==
    called = <<"parsePeriodToDate", "getWeekStart">> =>
        /\ weekStart.valid
        /\ (weekStart.t + 3) % 7 = 0
        /\ weekStart.t <= date.t
        /\ date.t - weekStart.t <= 6
        /\ \A l \in AllLabels :
               (FormatDayLabel(weekStart) = WeekKeyOfLabel[l])
                   <=> (WeekOf(date.t) = WeekOf(ParsedOf[l].t))

\* A Sunday, 1 January, mapped to the Monday six days earlier, in the year
\* before.
C9_Witness ==
    /\ called = <<"parsePeriodToDate", "getWeekStart">>
    /\ label.m = 1
    /\ label.d = 1
    /\ (date.t + 4) % 7 = 0
    /\ weekStart.t = date.t - 6
    /\ CivilFromDays(weekStart.t).y = CivilFromDays(date.t).y - 1

\* C10: aggregation is idempotent at the same granularity: an aggregator
\* applied to its own output returns the same sequence.
C10_AggregationIdempotent ==
    (Len(called) = 2 /\ called[2] = "again") =>
        again = (CASE called[1] = "aggregateToMonthly" -> pageMonthly
                   [] called[1] = "overlay.aggregateToWeekly" -> ovWeekly
                   [] OTHER -> ovMonthly)

\* The emitted days of sample i (0-based) all lie before the start date of
\* the sample after it.
BeforeNextStart(i) ==
    LET nextStart == parsePeriodToDate(trendline[i + 2].period)
        days == DaysOfSample(i)
    IN  \A k \in 1..Len(days) :
            LET day == parsePeriodToDate(days[k].period)
            IN  day.valid /\ nextStart.valid /\ day.t < nextStart.t

\* C11: for a weekly trendline whose labels are strictly increasing in
\* calendar time, weeklyToDaily emits for sample i no day on or after the
\* start date of sample i+1, the output labels are strictly increasing in
\* calendar time and no calendar day appears twice.
C11_DaysStayBeforeNextStart ==
    (Ran("weeklyToDaily") /\ AllWellFormed(trendline) /\ StrictlyAscending(trendline)) =>
        /\ \A i \in 0..(Len(trendline) - 2) : BeforeNextStart(i)
        /\ StrictlyAscending(dailyData)

\* The same for trendlines whose emitted days end before 1 January 2050,
\* the first day a two-digit year cannot label.
EndsBefore2050(tl) ==
    \A i \in 1..Len(tl) :
        LET d == parsePeriodToDate(tl[i].period)
        IN  d.valid => d.t + 6 < DaysFromCivil(2050, 1, 1)

DaysStayBeforeNextStartUntil2050 ==
    (Ran("weeklyToDaily") /\ AllWellFormed(trendline) /\ StrictlyAscending(trendline)
        /\ EndsBefore2050(trendline)) =>
        /\ \A i \in 0..(Len(trendline) - 2) : BeforeNextStart(i)
        /\ StrictlyAscending(dailyData)

\* The calendar day after day d of month m of year y.
NextCivil(c) ==
    IF c.d < DaysInMonth(c.y, c.m) THEN [c EXCEPT !.d = c.d + 1]
    ELSE IF c.m < 12 THEN [c EXCEPT !.m = c.m + 1, !.d = 1]
    ELSE [y |-> c.y + 1, m |-> 1, d |-> 1]

RECURSIVE CivilAfter(_, _)
CivilAfter(c, k) == IF k = 0 THEN c ELSE NextCivil(CivilAfter(c, k - 1))

\* "Mon D, YY" of a calendar day.
CivilLabel(c) == DayLabel(monthNames[c.m], DayDigits(c.d), TwoDigits(c.y % 100))

\* Sample i (0-based) has no following sample, or the following sample
\* starts 7 or more days after it.
NoNextWithin7(i) ==
    \/ i = Len(trendline) - 1
    \/ /\ WellFormed(trendline[i + 2].period)
       /\ LET start == parsePeriodToDate(trendline[i + 1].period)
              nextStart == parsePeriodToDate(trendline[i + 2].period)
          IN  start.valid /\ nextStart.valid /\ nextStart.t >= start.t + 7

\* C12: for a weekly sample with no following sample starting within 7
\* days, weeklyToDaily emits exactly 7 entries whose labels are the 7
\* consecutive calendar days beginning at the sample's start date, in
\* order, rolling over month ends and year ends.
C12_SevenConsecutiveDays ==
    Ran("weeklyToDaily") =>
        \A i \in 0..(Len(trendline) - 1) :
            (WellFormed(trendline[i + 1].period) /\ NoNextWithin7(i)) =>
                LET days == DaysOfSample(i)
                    start == CivilFromDays(parsePeriodToDate(trendline[i + 1].period).t)
                IN  /\ Len(days) = 7
                    /\ \A k \in 1..7 : days[k].period = CivilLabel(CivilAfter(start, k - 1))

\* "Dec 26, 22" alone: 7 entries, the last one "Jan 1, 23".
C12_Witness ==
    /\ called = <<"weeklyToDaily">>
    /\ Len(trendline) = 1
    /\ trendline[1].period = DayLabel(monthNames[12], <<"2", "6">>, <<"2", "2">>)
    /\ Len(dailyData) = 7
    /\ dailyData[6].period = DayLabel(monthNames[12], <<"3", "1">>, <<"2", "2">>)
    /\ dailyData[7].period = DayLabel(monthNames[1], <<"1">>, <<"2", "3">>)

\* A number of four 16-bit limbs.
IsBig(a) == Len(a) = 4 /\ \A i \in 1..4 : a[i] \in 0..(Half - 1)

\* In units of 2^-33: 0.5 <= w < 2.0.
InWeightRange(w) ==
    /\ IsBig(w)
    /\ BigLeq(<<0, 0, 1, 0>>, w)
    /\ ~BigLeq(<<0, 0, 4, 0>>, w)

\* C13: for every integer seed seededRandom returns a value in [0, 1)
\* (its 2^32-fold is an unsigned 32-bit integer), so each of the 7 raw
\* weights 0.5 + 1.5 * seededRandom(seed) lies in [0.5, 2.0) and is not
\* zero, and the weight sum is not zero.
C13_RandomInUnitInterval ==
    /\ random # NoWord =>
           /\ random.hi \in 0..(Half - 1)
           /\ random.lo \in 0..(Half - 1)
           /\ InWeightRange(RawWeight(Num(baseSeed)))
    /\ weights7 # <<>> =>
           /\ \A d \in 0..6 : InWeightRange(weights7[d]) /\ weights7[d] # BigZero
           /\ BigSum(weights7, 6) # BigZero
           /\ BigLeq(<<0, 0, 7, 0>>, BigSum(weights7, 6))

\* A baseSeed whose value is 1/2 or more (the top bit of the word is set) and
\* a weight of 1.25 or more.
C13_Witness ==
    /\ random # NoWord
    /\ random.hi >= Half \div 2
    /\ weights7 # <<>>
    /\ \E d \in 0..6 : BigLeq(<<0, 32768, 2, 0>>, weights7[d])

Abs(n) == IF n < 0 THEN -n ELSE n

\* C14 as claimed, for the well-formed samples with at least one day
\* emitted: in weeklyToDaily the emitted daily conversations of a sample,
\* also of one cut short by the next sample's start date, sum to the
\* sample's weekly total within 1 unit per emitted day.
C14_SumWithinOnePerEmittedDay ==
    Ran("weeklyToDaily") =>
        \A i \in 0..(Len(trendline) - 1) :
            LET days == DaysOfSample(i)
            IN  (WellFormed(trendline[i + 1].period) /\ Len(days) >= 1) =>
                    Abs(SumConversations(days) - trendline[i + 1].conversations)
                        <= Len(days)

\* C14 as amended: the daily conversations of a sample whose 7 days are all
\* emitted sum to the weekly total within 1 unit per day; the emitted days
\* of a sample cut short sum to no more than the weekly total plus 1 unit
\* per emitted day (and may fall short of it by any amount).
C14_SumWithinOnePerDayOfFullWeek ==
    Ran("weeklyToDaily") =>
        \A i \in 0..(Len(trendline) - 1) :
            LET days == DaysOfSample(i)
                total == trendline[i + 1].conversations
            IN  /\ Len(days) = 7 => Abs(SumConversations(days) - total) <= 7
                /\ SumConversations(days) <= total + Len(days)

\* A week of 700 cut short after 4 days, which sum to less than 696, and
\* then a full week.
C14_Witness ==
    /\ called = <<"weeklyToDaily">>
    /\ Len(trendline) = 2
    /\ trendline[1].conversations = 700
    /\ Len(DaysOfSample(0)) = 4
    /\ SumConversations(DaysOfSample(0)) < 696
    /\ Len(DaysOfSample(1)) = 7

\* The positions on the shared axis of the periods the series has a sample
\* for.
PositionsOf(trendln) ==
    {j \in 1..Len(combinedData) :
        \E i \in 1..Len(trendln) : trendln[i].period = combinedData[j].period}

\* C15: in combinedData, for every event with at least one sample, the
\* entry just before the event's first sample and the entry just after its
\* last one hold 0 for the event (where there is such an entry), and every
\* other entry where the event has no sample holds no value for it.
C15_ZeroBeforeFirstAndAfterLast ==
    \A n \in 1..Len(aggregatedEventTrendlines) :
        LET event == aggregatedEventTrendlines[n]
            pos == PositionsOf(event.trendline)
        IN  event.trendline # <<>> =>
                /\ pos # {}
                /\ \A j \in (1..Len(combinedData)) \ pos :
                       IF j = Min(pos) - 1 \/ j = Max(pos) + 1
                       THEN /\ event.id \in DOMAIN combinedData[j].data
                            /\ combinedData[j].data[event.id] = 0
                       ELSE event.id \notin DOMAIN combinedData[j].data

\* An axis of 5 periods and an event with a sample on the third alone: 0
\* on the second and the fourth, no value on the first and the fifth.
C15_Witness ==
    /\ granularity = "daily"
    /\ Len(combinedData) = 5
    /\ \E n \in 1..Len(aggregatedEventTrendlines) :
           LET event == aggregatedEventTrendlines[n]
           IN  /\ Len(event.trendline) = 1
               /\ event.trendline[1].period = combinedData[3].period
               /\ combinedData[3].data[event.id] = event.trendline[1].conversations
               /\ combinedData[2].data[event.id] = 0
               /\ combinedData[4].data[event.id] = 0
               /\ event.id \notin DOMAIN combinedData[1].data
               /\ event.id \notin DOMAIN combinedData[5].data

\* Every sample of the series is on the axis with its value under key.
KeepsSamples(trendln, key) ==
    \A i \in 1..Len(trendln) :
        \E j \in 1..Len(combinedData) :
            /\ combinedData[j].period = trendln[i].period
            /\ key \in DOMAIN combinedData[j].data
            /\ combinedData[j].data[key] = trendln[i].conversations

\* C16: the padding changes no real value: after all events are padded,
\* every (period, series) cell that holds a sample, of the overall series
\* and of every event, holds the sample's value.
C16_PaddingKeepsRealValues ==
    /\ KeepsSamples(aggregatedOverallTrendline, "overall")
    /\ \A n \in 1..Len(aggregatedEventTrendlines) :
           KeepsSamples(aggregatedEventTrendlines[n].trendline,
                        aggregatedEventTrendlines[n].id)

\* Weekly buckets: an entry that holds a bucket of the overall series, a
\* positive bucket of one event and the padding zero of the other event,
\* whose last bucket is just before it.
C16_Witness ==
    /\ granularity = "weekly"
    /\ Len(aggregatedEventTrendlines) = 2
    /\ \E j \in 2..Len(combinedData), a, b \in 1..2 :
           LET real == aggregatedEventTrendlines[a]
               padded == aggregatedEventTrendlines[b]
           IN  /\ a # b
               /\ j \in PositionsOf(aggregatedOverallTrendline)
               /\ j \in PositionsOf(real.trendline)
               /\ combinedData[j].data[real.id] > 0
               /\ j \notin PositionsOf(padded.trendline)
               /\ j - 1 \in PositionsOf(padded.trendline)
               /\ combinedData[j].data[padded.id] = 0

-----------------------------------------------------------------------------
(* The Timeline's axes *)

\* The sales series are drawn against the right axis.
SalesShown == salesData.defined /\ showSalesData /\ ~isReachView

\* The magnitude of an integer-valued finite double, as a natural number.
MagnitudeOf(x) == ShlN(x.mant, x.exp)

\* 2^k times the distance between convMin * salesMax and
\* maxConversations * salesMin, and 2^k times the magnitude of the latter,
\* for the k that makes both natural numbers.
ScaleOf(c) == IF c.exp < 0 THEN -c.exp ELSE 0

ScaledTarget(c) ==
    ShlN(MulN(MagnitudeOf(maxConversations), NatOf(-salesDomain.min)), ScaleOf(c))

AlignmentGap(c) ==
    LET mine == MulN(ShlN(c.mant, c.exp + ScaleOf(c)), NatOf(salesDomain.max))
        target == ScaledTarget(c)
    IN  IF ~c.neg THEN AddN(mine, target)
        ELSE IF LeqN(target, mine) THEN SubN(mine, target)
        ELSE SubN(target, mine)

\* C17 as stated: whenever the sales series are shown, over a chart with
\* points and a sales axis with two distinct ends, the left axis runs up to
\* maxConversations and its minimum puts 0 at the same height on both axes,
\* exactly: convMin * salesMax = maxConversations * salesMin.
C17_ZerosAlignExactly ==
    SalesShown /\ chartData # <<>> /\ salesDomain.min # salesDomain.max =>
        /\ conversationDomain.max = maxConversations
        /\ conversationDomain.min.cls = "num"
        /\ AlignmentGap(conversationDomain.min) = <<>>

\* C17, amended: whenever the sales series are shown the left axis runs up to
\* maxConversations and its minimum is the double the expression
\* -maxConversations * r / (1 - r) evaluates to.  With a sales axis that has
\* two distinct ends and a finite maxConversations it is a finite number
\* whose distance from maxConversations * salesMin / salesMax is at most
\* 2^-50 * (1 + |salesMin| / salesMax) times the magnitude of that quotient;
\* with no chart point it is +Infinity; with salesMin = salesMax it is NaN.
C17_ZerosAlignWithinRounding ==
    SalesShown =>
        /\ conversationDomain.max = maxConversations
        /\ IF salesDomain.min = salesDomain.max
           THEN conversationDomain.min.cls = "nan"
           ELSE IF maxConversations.cls = "inf"
           THEN conversationDomain.min = DInfinity(FALSE)
           ELSE LET c == conversationDomain.min
                IN  /\ c.cls = "num"
                    /\ salesDomain.min < 0 /\ salesDomain.max > 0
                    /\ LeqN(ShlN(MulN(AlignmentGap(c), NatOf(salesDomain.max)), 50),
                            MulN(ScaledTarget(c),
                                 NatOf(salesDomain.max - salesDomain.min)))

\* maxConversations 1000 against the sales axis [-20, 10]: the minimum is
\* -1999.9999999999998, the double just above -2000.
C17_Witness ==
    /\ SalesShown
    /\ maxConversations = DoubleOf(1000)
    /\ salesDomain = [min |-> -20, max |-> 10]
    /\ conversationDomain.min
           = [cls |-> "num", neg |-> TRUE, mant |-> <<32767, 32767, 32767, 249>>,
              exp |-> -42]
    /\ conversationDomain.min # DoubleOf(-2000)

\* No value of any geography is below 0.
NoNegativeSales ==
    \A g \in 1..Len(salesData.geographies) :
        \A i \in 1..Len(salesData.geographies[g]) : salesData.geographies[g][i] >= 0

\* C18: whenever the sales series are shown over a chart with points, and
\* none of their values is negative and one is positive, the left axis
\* starts at exactly 0.
C18_NoNegativeSalesKeepsZeroMin ==
    SalesShown /\ chartData # <<>> /\ NoNegativeSales /\ salesDomain.max > 0
        => IsZero(conversationDomain.min)

\* C19: whenever sales data is given for a chart with points and the two
\* ends of the sales axis are equal, the left axis is [0, maxConversations]
\* as it is without sales data.
C19_DegenerateSalesTreatedAsAbsent ==
    salesData.defined /\ chartData # <<>> /\ salesDomain.max = salesDomain.min =>
        /\ IsZero(conversationDomain.min)
        /\ conversationDomain.max = maxConversations

-----------------------------------------------------------------------------
(* Missing optional fields *)

Lacks(field) == field \notin DOMAIN rawItem

\* The defaults the entries share under both readings: image "", date "",
\* indianParticipation 0, totalVolume 0, and a reach of 0 for every day and
\* month made of a sample without reach; a field that is given is kept.
ZeroAndEmptyImageDefaults ==
    /\ timelineEvent # <<>> =>
           /\ rawItem.event_name \notin DOMAIN eventImageMap => timelineEvent[1].image = ""
           /\ rawItem.event_name \in DOMAIN eventImageMap
                  => timelineEvent[1].image = eventImageMap[rawItem.event_name]
           /\ timelineEvent[1].indianParticipation
                  = (IF Lacks("indian_participation") THEN 0 ELSE rawItem.indian_participation)
           /\ Lacks("date") => timelineEvent[1].date = <<>>
    /\ reachEvent # <<>> =>
           /\ reachEvent[1].totalVolume
                  = (IF Lacks("total_reach") THEN 0 ELSE rawItem.total_reach)
           /\ \A i \in 1..Len(trendline) :
                  "reach" \notin DOMAIN trendline[i]
                      => reachEvent[1].trendline[i].conversations = 0
    /\ trendline # <<>> /\ "reach" \notin DOMAIN trendline[1] =>
           /\ called = <<"weeklyToDaily">> =>
                  /\ Len(dailyData) = 7
                  /\ \A i \in 1..Len(dailyData) : dailyData[i].reach = 0
           /\ called = <<"aggregateToMonthly">> =>
                  /\ Len(pageMonthly) = 1
                  /\ pageMonthly[1].reach = 0

\* C20 as stated: a record that lacks an optional field gets the default:
\* a missing reach counts as 0, a missing total_reach and a missing
\* indian_participation become 0, a missing image and a missing description
\* become the empty string.
C20_MissingFieldsGetZeroOrEmptyString ==
    /\ ZeroAndEmptyImageDefaults
    /\ timelineEvent # <<>> /\ Lacks("description") => timelineEvent[1].description = <<>>

\* C20, amended: as above, except that a missing or empty description
\* becomes the text "Total conversation volume: " followed by the digits of
\* total_conv_vol with the locale's group separators, and a description
\* that is given and not empty is kept.
C20_MissingFieldsGetDefaults ==
    /\ ZeroAndEmptyImageDefaults
    /\ timelineEvent # <<>> =>
           LET description == timelineEvent[1].description
               prefix == <<"T", "o", "t", "a", "l", " ", "c", "o", "n", "v", "e", "r", "s", "a", "t", "i", "o", "n", " ", "v", "o", "l", "u", "m", "e", ":", " ">>
           IN  IF Lacks("description") \/ rawItem.description = <<>>
               THEN /\ Len(description) > Len(prefix)
                    /\ SubSeq(description, 1, Len(prefix)) = prefix
                    /\ SelectSeq(SubSeq(description, Len(prefix) + 1, Len(description)),
                                 IsDigit)
                           = NumToString(Num(rawItem.total_conv_vol))
               ELSE description = rawItem.description

\* A record with none of the optional fields and a name without an image,
\* its trendline one sample without reach: both entries made and the
\* trendline turned into days.
C20_Witness ==
    /\ timelineEvent # <<>>
    /\ reachEvent # <<>>
    /\ DOMAIN rawItem = {"event_name", "total_conv_vol"}
    /\ rawItem.event_name \notin DOMAIN eventImageMap
    /\ Len(trendline) = 1
    /\ "reach" \notin DOMAIN trendline[1]
    /\ called = <<"weeklyToDaily">>
    /\ Len(dailyData) = 7
    /\ timelineEvent[1].description # <<>>

-----------------------------------------------------------------------------
(* The two aggregateToMonthly implementations side by side *)

\* The period and the conversations of each row, in order.
PeriodsAndConversations(rows) ==
    [i \in 1..Len(rows) |->
        [period |-> rows[i].period, conversations |-> rows[i].conversations]]

\* C30: for every trendline of well-formed 3-token labels "Mon D, YY",
\* page.tsx's aggregateToMonthly returns the period labels the overlay's
\* aggregateToMonthly returns for it, in the same order and with the same
\* conversations value per label.
C30_MonthlyAggregatorsAgree ==
    (AllWellFormed(trendline) /\ Ran("aggregateToMonthly"))
        => PeriodsAndConversations(pageMonthly) \in overlayAggregateToMonthly(trendline)

\* The same labels with the same sums, in whatever order.
MonthlyAggregatorsAgreeUpToOrder ==
    (AllWellFormed(trendline) /\ Ran("aggregateToMonthly"))
        => \E other \in overlayAggregateToMonthly(trendline) :
               Elements(PeriodsAndConversations(pageMonthly)) = Elements(other)

-----------------------------------------------------------------------------
(* The page's claims.                                                      *)

\* C21: an empty trendline yields an empty series from weeklyToDaily, from
\* both aggregateToMonthly functions and from aggregateToWeekly, and the
\* Timeline rendered on the empty chart series gives every event a marker
\* of display date "" and conversations 0.
C21_EmptyTrendlineEmptySeries ==
    trendline = <<>> =>
        /\ Ran("weeklyToDaily") => dailyData = <<>>
        /\ Ran("aggregateToMonthly") => pageMonthly = <<>>
        /\ Ran("overlay.aggregateToWeekly") => ovWeekly = <<>>
        /\ Ran("overlay.aggregateToMonthly") => ovMonthly = <<>>
        /\ monthlyTrendline = <<>>
        /\ viewMode # "overlay" =>
               /\ chartData = <<>>
               /\ combinedChartData = <<>>
               /\ Len(eventMarkers) = Len(pageEvents)
               /\ \A e \in 1..Len(eventMarkers) :
                      /\ eventMarkers[e].id = pageEvents[e].id
                      /\ eventMarkers[e].date = <<>>
                      /\ eventMarkers[e].conversations = 0

\* The empty trendline aggregated, its Timeline rendered in the reach view
\* with a marker per event.
C21_Witness ==
    /\ trendline = <<>>
    /\ called # <<>>
    /\ viewMode = "reach"
    /\ Len(eventMarkers) = 3

\* C29: sales values join the monthly chart rows by label.  For every
\* geography and every sales key "M 20YY", transformSalesData gives the
\* point the label "M 1, YY"; the chart of the timeline view has a row of
\* that label exactly when the trendline has a well-formed sample of month
\* M and year YY, that row carries the value under the geography's key
\* sales_<name>, no other row carries a value the geography has not for
\* the row's own label, and the rows are those of the monthly trendline,
\* none added.
C29_SalesJoinByLabel ==
    (viewMode = "timeline" /\ dcSalesRaw # <<>>) =>
        /\ Len(combinedChartData) = Len(monthlyTrendline)
        /\ \A i \in 1..Len(combinedChartData) :
               combinedChartData[i].date = monthlyTrendline[i].period
        /\ \A g \in 1..Len(dcSalesRaw) :
             \E points \in {transformSalesData(dcSalesRaw).geographies[g].data},
                salesKey \in {<<"s", "a", "l", "e", "s", "_">>
                                 \o [c \in 1..Len(dcSalesRaw[g].name) |->
                                        IF dcSalesRaw[g].name[c] = " " THEN "_"
                                        ELSE dcSalesRaw[g].name[c]]} :
               /\ \A e \in 1..Len(dcSalesRaw[g].months) :
                    \E key \in {Split(dcSalesRaw[g].months[e].month)} :
                      \E salesLabel \in {DayLabel(key[1], <<"1">>, SubSeq(key[2], 3, 4))} :
                        /\ points[e].period = salesLabel
                        /\ Cardinality({i \in 1..Len(combinedChartData) :
                                           combinedChartData[i].date = salesLabel})
                               = IF \E w \in 1..Len(trendline) :
                                        /\ WellFormed(trendline[w].period)
                                        /\ Split(trendline[w].period)[1] = key[1]
                                        /\ Split(trendline[w].period)[3] = SubSeq(key[2], 3, 4)
                                 THEN 1 ELSE 0
                        /\ \A i \in 1..Len(combinedChartData) :
                               combinedChartData[i].date = salesLabel
                                   => /\ MapHas(combinedChartData[i].sales, salesKey)
                                      /\ MapGet(combinedChartData[i].sales, salesKey)
                                             = points[e].value
               /\ \A i \in 1..Len(combinedChartData) :
                      MapHas(combinedChartData[i].sales, salesKey)
                          => \E e \in 1..Len(dcSalesRaw[g].months) :
                                 points[e].period = combinedChartData[i].date

\* December 2022 and January 2023 charted, the United Kingdom's values of
\* both months on their rows, its value of January 2000 on none.
C29_Witness ==
    /\ viewMode = "timeline"
    /\ Len(dcSalesRaw) = 2
    /\ Len(combinedChartData) = 2
    /\ Len(combinedChartData[1].sales) = 1
    /\ Len(combinedChartData[2].sales) = 2
    /\ called # <<>>

C28_SelectionsChangeOnlyWhatTheyName ==
    [][/\ \A eventId \in {"event-1", "event-2"} :
              ToggleEvent(eventId) =>
                  /\ (eventId \in selectedEvents') = (eventId \notin selectedEvents)
                  /\ selectedEvents' \ {eventId} = selectedEvents \ {eventId}
                  /\ selectedGeographies' = selectedGeographies
       /\ \A name \in {<<"I", "n", "d", "i", "a">>, <<"U", "n", "i", "t", "e", "d", " ", "K", "i", "n", "g", "d", "o", "m">>} :
              ToggleGeography(name) =>
                  /\ (name \in selectedGeographies') = (name \notin selectedGeographies)
                  /\ selectedGeographies' \ {name} = selectedGeographies \ {name}
                  /\ selectedEvents' = selectedEvents
       /\ SelectAll =>
              selectedEvents' = {eventTrendlines[e].id : e \in 1..Len(eventTrendlines)}
       /\ DeselectAll => selectedEvents' = {}
       /\ (granularity' # granularity \/ showOverall' # showOverall
               \/ showSalesData' # showSalesData) /\ viewMode' = viewMode
              => /\ selectedEvents' = selectedEvents
                 /\ selectedGeographies' = selectedGeographies
       /\ selectedEvents' \subseteq {eventTrendlines[e].id : e \in 1..Len(eventTrendlines)}]_vars

\* The overlay with the default selection toggled off and the other event
\* toggled on, at another granularity and without the overall series.
C28_Witness ==
    /\ viewMode = "overlay"
    /\ selectedEvents = {"event-2"}
    /\ granularity = "monthly"
    /\ ~showOverall

\* C23: a click on the marker of event e (a touch-start on a touch
\* device) sets highlightedEvent to e at once; highlightedEvent is null or
\* an id that was clicked; once every scheduled 2000 ms timeout has run it
\* is null; and a highlight is always cleared in the end.
C23_HighlightSetAndCleared ==
    /\ [][\A eventId \in {<<"e", "v", "e", "n", "t", "-", "1">>, <<"e", "v", "e", "n", "t", "-", "2">>} :
              (Len(onEventClickCalls') > Len(onEventClickCalls)
                   /\ onEventClickCalls'[Len(onEventClickCalls')] = eventId)
                  => highlightedEvent' = <<eventId>>]_vars
    /\ [](highlightedEvent = null
              \/ \E c \in 1..Len(onEventClickCalls) : <<onEventClickCalls[c]>> = highlightedEvent)
    /\ [](highlightTimers = <<>> => highlightedEvent = null)
    /\ (highlightedEvent # null) ~> (highlightedEvent = null)
    /\ <>[](highlightTimers = <<>>)

\* Two clicks made, every timeout run, no highlight left.
C23_Witness ==
    /\ Len(onEventClickCalls) = MaxClicks
    /\ onEventClickCalls[1] # onEventClickCalls[2]
    /\ highlightTimers = <<>>
    /\ highlightedEvent = null

\* C24: a highlight lasts until the timeout scheduled by the click that
\* set it runs: a timeout scheduled by an earlier click, running while a
\* later click's timeout is pending, leaves the highlight as it is.
C24_EarlierTimerLeavesHighlight ==
    [][(Len(highlightTimers') < Len(highlightTimers) /\ highlightTimers' # <<>>)
           => highlightedEvent' = highlightedEvent]_vars

C26_HoverAndPositionTogether ==
    /\ (hoveredEvent = null) <=> (tooltipPosition = null)
    /\ hoveredEvent = null \/ \E e \in 1..Len(pageEvents) : <<pageEvents[e].id>> = hoveredEvent

\* Hovers cleared by hide timeouts, and the last one, with no leave after
\* its enter, by a chart click on a touch device.
C26_Witness ==
    /\ hoveredEvent = null
    /\ tooltipPosition = null
    /\ mouseEvents.last = "enter"
    /\ lastTimeoutId = MaxLeaves
    /\ isTouch

\* C27: on a touch device the floating tooltip is never rendered, a click
\* on a marker does not call onEventClick and a touch-start on a marker
\* calls it once with the marker's event id; on a device without touch a
\* click calls it once with the marker's event id.
C27_TouchDevice ==
    [][/\ isTouch' => ~TooltipRendered'
       /\ \A eventId \in {<<"e", "v", "e", "n", "t", "-", "1">>, <<"e", "v", "e", "n", "t", "-", "2">>} :
              /\ HandleEventClick(eventId) =>
                     onEventClickCalls' = IF isTouch THEN onEventClickCalls
                                          ELSE Append(onEventClickCalls, eventId)
              /\ HandleTouchStart(eventId) =>
                     onEventClickCalls' = Append(onEventClickCalls, eventId)]_vars

\* A touch device with a marker hovered and onEventClick called by a
\* touch-start.
C27_Witness ==
    /\ isTouch
    /\ hoveredEvent # null
    /\ tooltipPosition # null
    /\ onEventClickCalls # <<>>

====
